---- MODULE Spec2Model ----
(***************************************************************************)
(* Model of onnxruntime/core/framework/sparse_utils.cc: conversions        *)
(* between dense tensors and the COO / CSR sparse encodings, the index     *)
(* converters between the two encodings (with and without transpose) and   *)
(* the sorted-index matcher.                                               *)
(*                                                                         *)
(* Sequences are 1-based here and 0-based in the source: position p of a   *)
(* span is element p+1 of the sequence that models it.  All index values   *)
(* (offsets, rows, columns) keep the source's 0-based meaning.             *)
(***************************************************************************)
EXTENDS Integers, Sequences, FiniteSets, TLC

\* ------------------------------------------------------------------ bounds
\* largest extent of one dimension and largest number of elements of a dense
\* tensor
MaxDenseDim == 3
MaxElems == 6
\* largest row / column count of the sparse matrices given to the converters
MaxDim == 3
\* largest number of stored entries of those sparse matrices
MaxNnz == 2
\* largest length and largest value of the sequences given to the matcher
MaxScanLen == 3
MaxScanVal == 2
\* largest number of stored values of the sparse tensors handed directly to
\* the sparse -> dense conversions
MaxGivenNnz == 2
\* largest number of elements of the dense tensors of the specification that
\* covers all four conversions
MaxAllElems == 4
\* threads that wait on the one CudaNotification
NumWaiters == 2

\* ------------------------------------------------------------ basic helpers
SeqsUpTo(S, n) == UNION {[1..k -> S] : k \in 0..n}

RECURSIVE Product(_)
Product(dims) == IF dims = <<>> THEN 1 ELSE Head(dims) * Product(Tail(dims))

\* TensorShape::Size()
ShapeSize(dims) == Product(dims)

CPU == "CPU"
GPU == "GPU"
Devices == {CPU, GPU}

\* element types: the four supported widths, one unsupported width, string
NumericType(sz) == [is_string |-> FALSE, size |-> sz]
StringType == [is_string |-> TRUE, size |-> 32]
SupportedSizes == {1, 2, 4, 8}
ElementTypes == {NumericType(sz) : sz \in SupportedSizes \cup {16}} \cup {StringType}

StrElems == {"", "a", "b"}
\* the numeric element patterns tried: zero, one, and a pattern with the top
\* bit of a 1-byte element set
NumElems == {0, 1, 255}
Elems(type) == IF type.is_string THEN StrElems ELSE NumElems

\* the value a freshly created dense buffer holds: memset 0, or a
\* default-constructed std::string
ZeroOf(type) == IF type.is_string THEN "" ELSE 0

\* NotZero<T>: an element is stored iff it differs from T's zero
NotZero(type, v) == v # ZeroOf(type)

\* CopyElementAligned<T>: output[dst_idx] = values[src_idx]
CopyElementAligned(output, values, dst_idx, src_idx) ==
  [output EXCEPT ![dst_idx + 1] = values[src_idx + 1]]

\* conversion of an unsigned element pattern to the signed type of the same
\* width and back (the COO recorders take intN_t and push into uintN_t);
\* every pattern of the model is below 2^31, so it is non-negative in the
\* 4- and 8-byte signed types
ToSigned(v, sz) ==
  IF sz \in {1, 2} /\ v >= 2 ^ (8 * sz - 1) THEN v - 2 ^ (8 * sz) ELSE v
ToUnsigned(x, sz) == IF x < 0 THEN x + 2 ^ (8 * sz) ELSE x

\* --------------------------------------------------------------- tensors
Shapes1D == {<<n>> : n \in 1..MaxDenseDim}
Shapes2D == {<<r, c>> : r \in 1..MaxDenseDim, c \in 1..MaxDenseDim}
UnsupportedShapes == {<<>>, <<1, 1, 1>>, <<1, 2, 1>>}
DenseShapes ==
  {d \in Shapes1D \cup Shapes2D : ShapeSize(d) <= MaxElems} \cup UnsupportedShapes

\* strings live in host memory only
LocationsOf(type) == IF type.is_string THEN {CPU} ELSE Devices

\* the dense tensors of one shape and element type
DenseTensorsOf(d, t) ==
  {[dims |-> d, type |-> t, loc |-> l, data |-> x] :
     l \in LocationsOf(t), x \in [1..ShapeSize(d) -> Elems(t)]}

\* a default-constructed Tensor / SparseTensor (the caller's dst before a call)
NoTensor == [dims |-> <<>>, type |-> NumericType(0), loc |-> CPU, data |-> <<>>]
NoSparse == [format |-> "undefined", dims |-> <<>>, type |-> NumericType(0),
             loc |-> CPU, values |-> <<>>, indices |-> <<>>, indices_ndims |-> 0,
             inner |-> <<>>, outer |-> <<>>]

\* SparseTensor::MakeCsrData followed by filling the three buffers
MakeCsrData(type, dims, loc, values, inner, outer) ==
  [format |-> "csr", dims |-> dims, type |-> type, loc |-> loc,
   values |-> values, indices |-> <<>>, indices_ndims |-> 0,
   inner |-> inner, outer |-> outer]

\* SparseTensor::MakeCooData followed by filling the two buffers: the indices
\* are 1-D when there is one index per value and 2-D (nnz x 2) otherwise
MakeCooData(type, dims, loc, values, indices) ==
  [format |-> "coo", dims |-> dims, type |-> type, loc |-> loc,
   values |-> values, indices |-> indices,
   indices_ndims |-> IF Len(indices) = Len(values) THEN 1 ELSE 2,
   inner |-> <<>>, outer |-> <<>>]

\* result of one call: the returned status, the caller's dst afterwards, the
\* copies handed to the data transfer in call order (the last one is the one
\* that failed when the status is CopyFailed) and whether an element was
\* written outside the result buffer
Result(status, dst, copied, outside) ==
  [status |-> status, dst |-> dst, copied |-> copied, outside |-> outside]

\* mutant: the source is read where it lies
Staging_Never(loc) == <<>>

\* the staging copy of a source that is not in host memory
Staging(loc) == IF loc # CPU THEN <<"src">> ELSE <<>>

OK == "OK"

\* status values (the source returns a Status carrying a message; the names
\* are the error kinds those messages stand for)
UnsupportedRank == "UnsupportedRank"
UnsupportedLocationForStrings == "UnsupportedLocationForStrings"
NoTransferPath == "NoTransferPath"
CopyFailed == "CopyFailed"
UnsupportedElementWidth == "UnsupportedElementWidth"
InvalidIndexMode == "InvalidIndexMode"
InvalidFormat == "InvalidFormat"
MalformedIndices == "MalformedIndices"
IndexOutOfRange == "IndexOutOfRange"
DuplicateCoordinate == "DuplicateCoordinate"
\* ORT_ENFORCE / ORT_THROW: an exception leaves the call instead of a Status
EnforceFailed == "EnforceFailed"
\* an access outside a buffer: bounds-checked spans terminate the process, a
\* raw pointer write corrupts memory
Fault == "Fault"

\* --------------------------------------------------------- dense -> CSR
\* mutant: the recorder takes a type narrower than the element
RecordCsr_Narrow(type, v) == IF type.is_string THEN v ELSE v % 128

\* the recorders of DenseTensorToSparseCsr take uintN_t / const std::string&
RecordCsr(type, v) == v

RECURSIVE ScanAndRecordCsrLoop(_, _, _, _, _, _, _, _)
ScanAndRecordCsrLoop(type, src_span, cols, index, row, inner, outer, values) ==
  IF index >= Len(src_span)
  THEN [inner |-> inner, outer |-> outer, values |-> values]
  ELSE LET v == src_span[index + 1]
           cur_row == index \div cols
           outer1 == IF cur_row # row THEN Append(outer, Len(inner)) ELSE outer
           row1 == IF cur_row # row THEN cur_row ELSE row
           cur_col == index - cur_row * cols
       IN IF NotZero(type, v)
          THEN ScanAndRecordCsrLoop(type, src_span, cols, index + 1, row1,
                                    Append(inner, cur_col), outer1,
                                    Append(values, RecordCsr(type, v)))
          ELSE ScanAndRecordCsrLoop(type, src_span, cols, index + 1, row1,
                                    inner, outer1, values)

\* mutant: the final outer entry is not pushed
ScanAndRecordCsr_NoFinalPush(type, src_span, cols) ==
  ScanAndRecordCsrLoop(type, src_span, cols, 0, 0, <<>>, <<0>>, <<>>)

ScanAndRecordCsr(type, src_span, cols) ==
  LET r == ScanAndRecordCsrLoop(type, src_span, cols, 0, 0, <<>>, <<0>>, <<>>)
  IN [r EXCEPT !.outer = Append(r.outer, Len(r.inner))]

\* fail_at numbers the copy (in program order) that the data transfer fails:
\* 1 staging of src, 2 values, 3 inner, 4 outer; 0 when every copy succeeds
DenseTensorToSparseCsr(src, dst_device, has_transfer, fail_at, dst) ==
  IF Len(src.dims) # 2 THEN Result(UnsupportedRank, dst, <<>>, FALSE)
  ELSE IF src.type.is_string /\ dst_device # CPU
  THEN Result(UnsupportedLocationForStrings, dst, <<>>, FALSE)
  ELSE IF ~has_transfer THEN Result(NoTransferPath, dst, <<>>, FALSE)
  ELSE IF src.loc # CPU /\ fail_at = 1
  THEN Result(CopyFailed, dst, Staging(src.loc), FALSE)
  ELSE IF ~src.type.is_string /\ src.type.size \notin SupportedSizes
  THEN Result(UnsupportedElementWidth, dst, Staging(src.loc), FALSE)
  ELSE
    LET src_span == src.data
        cols == src.dims[2]
        scan == ScanAndRecordCsr(src.type, src_span, cols)
        nnz == Len(scan.inner)
        outer_size == IF nnz > 0 THEN Len(scan.outer) ELSE 0
        dst_tensor == MakeCsrData(src.type, src.dims, dst_device, scan.values,
                                  scan.inner, SubSeq(scan.outer, 1, outer_size))
        values_copy ==
          Staging(src.loc) \o (IF src.type.is_string THEN <<>> ELSE <<"values">>)
    IN IF nnz = 0 THEN Result(OK, dst_tensor, Staging(src.loc), FALSE)
       ELSE IF ~src.type.is_string /\ fail_at = 2
       THEN Result(CopyFailed, dst, values_copy, FALSE)
       ELSE IF fail_at = 3
       THEN Result(CopyFailed, dst, values_copy \o <<"inner">>, FALSE)
       ELSE IF fail_at = 4
       THEN Result(CopyFailed, dst, values_copy \o <<"inner", "outer">>, FALSE)
       ELSE Result(OK, dst_tensor, values_copy \o <<"inner", "outer">>, FALSE)

\* --------------------------------------------------------- CSR -> dense
\* what an access outside a raw buffer does: the process is terminated, or
\* the access lands in other memory and the call goes on
UBOutcomes == {"terminate", "continue"}
\* the values an out-of-bounds read may see
Junk == {0, 1}

\* st = [output, fault, outside]; src_idx is declared before the loops and is
\* not advanced by them.  inner_span is a bounds-checked span (and the access
\* is asserted): a position outside it terminates the process.  output is a
\* raw pointer: ub is the outcome of a write outside the buffer
RECURSIVE CsrScatter(_, _, _, _, _, _, _, _, _, _)
CsrScatter(values, inner_span, outer_span, cols, out_i, cnt, inner_idx, src_idx, ub, st) ==
  IF out_i >= Len(outer_span) THEN st
  ELSE LET row_size == outer_span[out_i + 1] - outer_span[out_i]
       IN IF cnt >= row_size
          THEN CsrScatter(values, inner_span, outer_span, cols, out_i + 1, 0,
                          inner_idx, src_idx, ub, st)
          ELSE IF inner_idx >= Len(inner_span) THEN [st EXCEPT !.fault = TRUE]
          ELSE LET col == inner_span[inner_idx + 1]
                   dst_idx == (out_i - 1) * cols + col
               IN IF dst_idx < 0 \/ dst_idx >= Len(st.output)
                  THEN IF ub = "terminate"
                       THEN [st EXCEPT !.fault = TRUE, !.outside = TRUE]
                       ELSE CsrScatter(values, inner_span, outer_span, cols, out_i,
                                       cnt + 1, inner_idx + 1, src_idx, ub,
                                       [st EXCEPT !.outside = TRUE])
                  ELSE CsrScatter(values, inner_span, outer_span, cols, out_i,
                                  cnt + 1, inner_idx + 1, src_idx, ub,
                                  [st EXCEPT !.output =
                                     CopyElementAligned(@, values, dst_idx, src_idx)])

\* mutant: the memset is missing and the buffer holds what the allocator left
ZeroFilled_NoMemset(type, dims) ==
  [i \in 1..ShapeSize(dims) |-> IF type.is_string THEN "" ELSE 1]

\* Tensor cpu_result(...) followed by the memset of a non-string buffer
ZeroFilled(type, dims) == [i \in 1..ShapeSize(dims) |-> ZeroOf(type)]

\* the copy of the host result to a destination that is not in host memory
Final(dst_device) == IF dst_device # CPU THEN <<"dst">> ELSE <<>>

\* mutant: dst is assigned the destination tensor before the copy into it
MoveToDst_BeforeCopy(src, dst_device, fail_at, st, staged, dst) ==
  LET dest_tensor == [dims |-> src.dims, type |-> src.type, loc |-> dst_device,
                      data |-> ZeroFilled(src.type, src.dims)]
  IN IF dst_device # CPU /\ fail_at = 2
     THEN Result(CopyFailed, dest_tensor, staged \o Final(dst_device), st.outside)
     ELSE Result(OK, [dest_tensor EXCEPT !.data = st.output],
                 staged \o Final(dst_device), st.outside)

\* the last step of both sparse -> dense conversions: the host result is
\* moved to dst, or copied to a tensor on the destination device that is
\* then moved to dst
MoveToDst(src, dst_device, fail_at, st, staged, dst) ==
  IF dst_device # CPU /\ fail_at = 2
  THEN Result(CopyFailed, dst, staged \o Final(dst_device), st.outside)
  ELSE Result(OK, [dims |-> src.dims, type |-> src.type,
                   loc |-> dst_device, data |-> st.output],
              staged \o Final(dst_device), st.outside)

\* fail_at: 1 staging of src (CopySparseTensor), 2 copy of the result to dst
SparseCsrToDenseTensor(src, dst_device, fail_at, ub, dst) ==
  IF Len(src.dims) # 2 THEN Result(UnsupportedRank, dst, <<>>, FALSE)
  ELSE IF src.format # "csr" THEN Result(InvalidFormat, dst, <<>>, FALSE)
  ELSE IF src.type.is_string /\ dst_device # CPU
  THEN Result(UnsupportedLocationForStrings, dst, <<>>, FALSE)
  ELSE
    LET rows == src.dims[1]
        cols == src.dims[2]
        zero == [output |-> ZeroFilled(src.type, src.dims), fault |-> FALSE,
                 outside |-> FALSE]
        finish(st, staged) == MoveToDst(src, dst_device, fail_at, st, staged, dst)
    IN IF Len(src.values) > 0
       THEN IF Len(src.inner) # Len(src.values) \/ Len(src.outer) # rows + 1
            THEN Result(EnforceFailed, dst, <<>>, FALSE)
            ELSE IF ~src.type.is_string /\ src.type.size \notin SupportedSizes
            THEN Result(UnsupportedElementWidth, dst, <<>>, FALSE)
            ELSE IF src.loc # CPU /\ fail_at = 1
            THEN Result(CopyFailed, dst, Staging(src.loc), FALSE)
            ELSE LET st == CsrScatter(src.values, src.inner, src.outer, cols,
                                      1, 0, 0, 0, ub, zero)
                 IN IF st.fault
                    THEN Result(Fault, dst, Staging(src.loc), st.outside)
                    ELSE finish(st, Staging(src.loc))
       ELSE finish(zero, <<>>)

\* --------------------------------------------------------- dense -> COO
\* the numeric recorders of DenseTensorToSparseCoo take intN_t and push the
\* value into a vector of uintN_t
RecordCoo(type, v) ==
  IF type.is_string THEN v
  ELSE ToUnsigned(ToSigned(v, type.size), type.size)

RECURSIVE ScanAndRecordCooLoop(_, _, _, _, _, _, _)
ScanAndRecordCooLoop(type, src_span, cols, linear, index, indices, values) ==
  IF index >= Len(src_span) THEN [indices |-> indices, values |-> values]
  ELSE LET v == src_span[index + 1]
           row == index \div cols
           col == index - row * cols
       IN IF NotZero(type, v)
          THEN ScanAndRecordCooLoop(type, src_span, cols, linear, index + 1,
                                    IF linear THEN Append(indices, index)
                                    ELSE Append(Append(indices, row), col),
                                    Append(values, RecordCoo(type, v)))
          ELSE ScanAndRecordCooLoop(type, src_span, cols, linear, index + 1,
                                    indices, values)

\* mutant: the index counter advances only on stored elements
ScanAndRecordCoo_CountStored(type, src_span, cols, linear) ==
  LET r == ScanAndRecordCooLoop(type, src_span, cols, linear, 0, <<>>, <<>>)
      nnz == Len(r.values)
  IN [r EXCEPT !.indices =
        IF linear THEN [i \in 1..nnz |-> i - 1]
        ELSE [i \in 1..2 * nnz |->
                IF i % 2 = 1 THEN ((i - 1) \div 2) \div cols
                ELSE ((i - 1) \div 2) % cols]]

ScanAndRecordCoo(type, src_span, cols, linear) ==
  ScanAndRecordCooLoop(type, src_span, cols, linear, 0, <<>>, <<>>)

\* mutant: the index mode is not checked
CooArgumentChecks_AnyIndexMode(src, dst_device, linear_index, has_transfer) ==
  IF ~has_transfer THEN NoTransferPath
  ELSE IF Len(src.dims) < 1 \/ Len(src.dims) > 2 THEN UnsupportedRank
  ELSE IF src.type.is_string /\ dst_device # CPU THEN UnsupportedLocationForStrings
  ELSE OK

\* mutant: the location of a string result is not checked
CooArgumentChecks_AnyLocation(src, dst_device, linear_index, has_transfer) ==
  IF ~has_transfer THEN NoTransferPath
  ELSE IF Len(src.dims) < 1 \/ Len(src.dims) > 2 THEN UnsupportedRank
  ELSE IF Len(src.dims) = 1 /\ ~linear_index THEN InvalidIndexMode
  ELSE OK

\* the checks DenseTensorToSparseCoo makes before it touches the data, in
\* program order: the Status of the first that fails
CooArgumentChecks(src, dst_device, linear_index, has_transfer) ==
  IF ~has_transfer THEN NoTransferPath
  ELSE IF Len(src.dims) < 1 \/ Len(src.dims) > 2 THEN UnsupportedRank
  ELSE IF Len(src.dims) = 1 /\ ~linear_index THEN InvalidIndexMode
  ELSE IF src.type.is_string /\ dst_device # CPU THEN UnsupportedLocationForStrings
  ELSE OK

\* fail_at: 1 staging of src, 2 values, 3 indices; 0 when every copy succeeds
DenseTensorToSparseCoo(src, dst_device, linear_index, has_transfer, fail_at, dst) ==
  IF CooArgumentChecks(src, dst_device, linear_index, has_transfer) # OK
  THEN Result(CooArgumentChecks(src, dst_device, linear_index, has_transfer),
              dst, <<>>, FALSE)
  ELSE IF src.loc # CPU /\ fail_at = 1
  THEN Result(CopyFailed, dst, Staging(src.loc), FALSE)
  ELSE IF ~src.type.is_string /\ src.type.size \notin SupportedSizes
  THEN Result(UnsupportedElementWidth, dst, Staging(src.loc), FALSE)
  ELSE
    LET src_span == src.data
        cols == IF Len(src.dims) = 2 THEN src.dims[2] ELSE src.dims[1]
        scan == ScanAndRecordCoo(src.type, src_span, cols, linear_index)
        gathered_indices == scan.indices
        nnz == IF linear_index THEN Len(gathered_indices)
               ELSE Len(gathered_indices) \div 2
        dst_result == MakeCooData(src.type, src.dims, dst_device, scan.values,
                                  gathered_indices)
        values_copy ==
          Staging(src.loc) \o (IF src.type.is_string THEN <<>> ELSE <<"values">>)
    IN IF nnz = 0 THEN Result(OK, dst_result, Staging(src.loc), FALSE)
       ELSE IF ~src.type.is_string /\ fail_at = 2
       THEN Result(CopyFailed, dst, values_copy, FALSE)
       ELSE IF fail_at = 3
       THEN Result(CopyFailed, dst, values_copy \o <<"indices">>, FALSE)
       ELSE Result(OK, dst_result, values_copy \o <<"indices">>, FALSE)

\* --------------------------------------------------------- COO -> dense
\* mutant: the row count is used as the row stride
CooDstIdx_RowStride(indices, linear, dims, src_idx) ==
  IF linear THEN indices[src_idx + 1]
  ELSE indices[2 * src_idx + 1] * dims[1] + indices[2 * src_idx + 2]

\* destination offset of value src_idx
CooDstIdx(indices, linear, dims, src_idx) ==
  IF linear THEN indices[src_idx + 1]
  ELSE indices[2 * src_idx + 1] * dims[2] + indices[2 * src_idx + 2]

\* st = [output, status, outside]; the only check on dst_idx is the one
\* against dense_size, and output is a raw pointer: ub is the outcome of a
\* write in front of the buffer
RECURSIVE CooScatter(_, _, _, _, _, _, _, _)
CooScatter(values, indices, linear, dims, dense_size, src_idx, ub, st) ==
  IF src_idx >= Len(values) THEN st
  ELSE LET dst_idx == CooDstIdx(indices, linear, dims, src_idx)
       IN IF ~(dst_idx < dense_size) THEN [st EXCEPT !.status = IndexOutOfRange]
          ELSE IF dst_idx < 0
          THEN IF ub = "terminate"
               THEN [st EXCEPT !.status = Fault, !.outside = TRUE]
               ELSE CooScatter(values, indices, linear, dims, dense_size,
                               src_idx + 1, ub, [st EXCEPT !.outside = TRUE])
          ELSE CooScatter(values, indices, linear, dims, dense_size, src_idx + 1, ub,
                          [st EXCEPT !.output =
                             CopyElementAligned(@, values, dst_idx, src_idx)])

\* fail_at: 1 staging of src (CopySparseTensor), 2 copy of the result to dst;
\* junk is what src_dims[1] reads when the shape has one dimension
SparseCooToDenseTensor(src, dst_device, fail_at, ub, junk, dst) ==
  IF Len(src.dims) < 1 \/ Len(src.dims) > 2
  THEN Result(UnsupportedRank, dst, <<>>, FALSE)
  ELSE IF src.format # "coo" THEN Result(InvalidFormat, dst, <<>>, FALSE)
  ELSE IF src.type.is_string /\ dst_device # CPU
  THEN Result(UnsupportedLocationForStrings, dst, <<>>, FALSE)
  ELSE
    LET zero == [output |-> ZeroFilled(src.type, src.dims), status |-> OK,
                 outside |-> FALSE]
        num_values == Len(src.values)
        num_indices == Len(src.indices)
        linear == num_indices = num_values
        src_dims == IF Len(src.dims) = 2 THEN src.dims ELSE <<src.dims[1], junk>>
        finish(st, staged) == MoveToDst(src, dst_device, fail_at, st, staged, dst)
    IN IF num_values > 0
       THEN IF ~(num_values = num_indices \/ 2 * num_values = num_indices)
            THEN Result(MalformedIndices, dst, <<>>, FALSE)
            ELSE IF src.loc # CPU /\ fail_at = 1
            THEN Result(CopyFailed, dst, Staging(src.loc), FALSE)
            ELSE IF ~src.type.is_string /\ src.type.size \notin SupportedSizes
            THEN Result(UnsupportedElementWidth, dst, Staging(src.loc), FALSE)
            ELSE IF ~linear /\ Len(src.dims) < 2 /\ ub = "terminate"
            THEN Result(Fault, dst, Staging(src.loc), FALSE)
            ELSE LET st == CooScatter(src.values, src.indices, linear, src_dims,
                                      ShapeSize(src.dims), 0, ub, zero)
                 IN IF st.status # OK
                    THEN Result(st.status, dst, Staging(src.loc), st.outside)
                    ELSE finish(st, Staging(src.loc))
       ELSE finish(zero, <<>>)

\* ------------------------------------------------- sparse <-> sparse
\* int64_t division truncates toward zero
CppDiv(a, b) == IF a >= 0 THEN a \div b ELSE -((-a) \div b)

\* result of an index converter: the Status, the index sequences handed back
\* and whether every assert() the call evaluated held
IndicesResult(status, indices, inner, outer, value_mapping, asserts) ==
  [status |-> status, indices |-> indices, inner |-> inner, outer |-> outer,
   value_mapping |-> value_mapping, asserts |-> asserts]

NoResult == IndicesResult("none", <<>>, <<>>, <<>>, <<>>, TRUE)
FailedResult(status) == IndicesResult(status, <<>>, <<>>, <<>>, <<>>, TRUE)
\* output = IndicesSpan(...)
IndicesSpan(indices) == IndicesResult(OK, indices, <<>>, <<>>, <<>>, TRUE)
\* csr_span = CsrIndicesSpan(...)
CsrIndicesSpan(inner, outer, value_mapping, asserts) ==
  IndicesResult(OK, <<>>, inner, outer, value_mapping, asserts)

Convert2DCooIndicesTo1D(cols, input_span) ==
  [dst_idx \in 1..(Len(input_span) \div 2) |->
     input_span[2 * dst_idx - 1] * cols + input_span[2 * dst_idx]]

\* st = [output, fault]: output starts as the zero-filled converted vector
RECURSIVE CsrToCooLoop(_, _, _, _, _, _, _)
CsrToCooLoop(cols, input_inner, input_outer, i, c, inner_ind, st) ==
  IF i >= Len(input_outer) THEN st
  ELSE LET c_limit == input_outer[i + 1] - input_outer[i]
       IN IF c >= c_limit
          THEN CsrToCooLoop(cols, input_inner, input_outer, i + 1, 0, inner_ind, st)
          ELSE IF inner_ind >= Len(input_inner) THEN [st EXCEPT !.fault = TRUE]
          ELSE CsrToCooLoop(cols, input_inner, input_outer, i, c + 1, inner_ind + 1,
                            [st EXCEPT !.output[inner_ind + 1] =
                               (i - 1) * cols + input_inner[inner_ind + 1]])

\* output_indices is the caller's span; the call returns its new contents
ConvertCsrIndicesToCooIndices(cols, input_inner, input_outer, output_indices) ==
  IF Len(input_inner) = 0 THEN IndicesSpan(output_indices)
  ELSE IF Len(input_inner) # Len(output_indices) THEN FailedResult(MalformedIndices)
  ELSE LET st == CsrToCooLoop(cols, input_inner, input_outer, 1, 0, 0,
                              [output |-> output_indices, fault |-> FALSE])
       IN IF st.fault THEN FailedResult(Fault) ELSE IndicesSpan(st.output)

GetCoo1DIndicesAndMaybeConvert(input) ==
  IF input.format = "coo"
  THEN IF input.indices_ndims = 2
       THEN IF Len(input.dims) # 2 THEN FailedResult(EnforceFailed)
            ELSE IndicesSpan(Convert2DCooIndicesTo1D(input.dims[2], input.indices))
       ELSE IF input.indices_ndims # 1 THEN FailedResult(MalformedIndices)
       ELSE IndicesSpan(input.indices)
  ELSE IF input.format # "csr" THEN FailedResult(InvalidFormat)
  ELSE IF Len(input.dims) # 2 THEN FailedResult(EnforceFailed)
  ELSE
    LET rows == input.dims[1]
        cols == input.dims[2]
    IN IF rows = 1 \/ cols = 1
       THEN [IndicesSpan(input.inner) EXCEPT
               !.asserts = (rows = Len(input.inner) \/ cols = Len(input.inner))]
       ELSE LET inner_span == input.inner
                outer_span == input.inner
                converted == [k \in 1..Len(inner_span) |-> 0]
            IN ConvertCsrIndicesToCooIndices(cols, inner_span, outer_span, converted)

\* mutant: one entry is pushed however many rows are skipped
PushMissing_OneRow(outer, row, cur_row, sz) ==
  IF row < cur_row THEN Append(outer, sz) ELSE outer

\* for (sz = inner.size(); row < cur_row; ++row) outer.push_back(sz)
RECURSIVE PushMissing(_, _, _, _)
PushMissing(outer, row, cur_row, sz) ==
  IF row < cur_row THEN PushMissing(Append(outer, sz), row + 1, cur_row, sz)
  ELSE outer
Advance(row, cur_row) == IF row < cur_row THEN cur_row ELSE row

\* the two loops over the COO indices of a matrix; k counts the entries done
RECURSIVE CooToCsrLoop(_, _, _, _, _, _, _)
CooToCsrLoop(cols, input_indices, ndims, k, row, inner, outer) ==
  IF (ndims = 1 /\ k >= Len(input_indices)) \/ (ndims = 2 /\ 2 * k >= Len(input_indices))
  THEN [row |-> row, inner |-> inner, outer |-> outer]
  ELSE LET idx == input_indices[k + 1]
           cur_row == IF ndims = 1 THEN CppDiv(idx, cols) ELSE input_indices[2 * k + 1]
           cur_col == IF ndims = 1 THEN idx - cur_row * cols ELSE input_indices[2 * k + 2]
       IN CooToCsrLoop(cols, input_indices, ndims, k + 1, Advance(row, cur_row),
                       Append(inner, cur_col),
                       PushMissing(outer, row, cur_row, Len(inner)))

\* mutant: the rows after the last stored entry get no outer entry
CooMatrixToCsrIndices_NoTrailingRows(rows, cols, input_indices, ndims) ==
  LET r == CooToCsrLoop(cols, input_indices, ndims, 0, 0, <<>>, <<0>>)
  IN CsrIndicesSpan(r.inner, r.outer, <<>>, Len(r.outer) = rows + 1)

\* the matrix branch of GetCsrIndicesAndMaybeConvert
CooMatrixToCsrIndices(rows, cols, input_indices, ndims) ==
  LET r == CooToCsrLoop(cols, input_indices, ndims, 0, 0, <<>>, <<0>>)
      outer_indices == PushMissing(r.outer, r.row, rows, Len(r.inner))
  IN CsrIndicesSpan(r.inner, outer_indices, <<>>, Len(outer_indices) = rows + 1)

\* mutant: a vector goes through the matrix branch
GetCsrIndicesAndMaybeConvert_NoVectorBranch(computed_dims, input) ==
  IF input.format = "csr" THEN CsrIndicesSpan(input.inner, input.outer, <<>>, TRUE)
  ELSE IF input.format # "coo" THEN FailedResult(InvalidFormat)
  ELSE IF Len(input.indices) = 0 THEN CsrIndicesSpan(<<>>, <<>>, <<>>, TRUE)
  ELSE IF input.indices_ndims \notin {1, 2} THEN FailedResult(MalformedIndices)
  ELSE CooMatrixToCsrIndices(computed_dims[1], computed_dims[2], input.indices,
                             input.indices_ndims)

GetCsrIndicesAndMaybeConvert(computed_dims, input) ==
  IF input.format = "csr" THEN CsrIndicesSpan(input.inner, input.outer, <<>>, TRUE)
  ELSE IF input.format # "coo" THEN FailedResult(InvalidFormat)
  ELSE IF Len(input.indices) = 0 THEN CsrIndicesSpan(<<>>, <<>>, <<>>, TRUE)
  ELSE IF input.indices_ndims \notin {1, 2} THEN FailedResult(MalformedIndices)
  ELSE IF computed_dims[1] = 1 \/ computed_dims[2] = 1
  THEN IF input.indices_ndims # 1 THEN FailedResult(InvalidIndexMode)
       ELSE CsrIndicesSpan(input.indices, <<0, Len(input.indices)>>, <<>>, TRUE)
  ELSE CooMatrixToCsrIndices(computed_dims[1], computed_dims[2], input.indices,
                             input.indices_ndims)

\* ----------------------------------------------------------- transpose
\* ConversionMap = std::map<int64_t, std::set<std::tuple<int64_t, size_t>>>,
\* modelled as the set of <<key, first, second>> it holds; iteration visits
\* the keys in ascending order and, under one key, the tuples in ascending
\* (first, second) order
TupleLess(x, y) ==
  \/ x[1] < y[1]
  \/ x[1] = y[1] /\ x[2] < y[2]
  \/ x[1] = y[1] /\ x[2] = y[2] /\ x[3] < y[3]

RECURSIVE InOrder(_)
InOrder(m) ==
  IF m = {} THEN <<>>
  ELSE LET x == CHOOSE x \in m : \A y \in m : x = y \/ TupleLess(x, y)
       IN <<x>> \o InOrder(m \ {x})

\* col_to_row[key].insert(std::make_tuple(first, second)).second
InsertIsNew(col_to_row, key, first, second) == <<key, first, second>> \notin col_to_row
Insert(col_to_row, key, first, second) == col_to_row \cup {<<key, first, second>>}

RECURSIVE OutputCsrLoop(_, _, _, _, _, _)
OutputCsrLoop(todo, col, inner, outer, value_mapping, k) ==
  IF k > Len(todo)
  THEN [col |-> col, inner |-> inner, outer |-> outer, value_mapping |-> value_mapping]
  ELSE LET cur_col == todo[k][1]
       IN OutputCsrLoop(todo, Advance(col, cur_col), Append(inner, todo[k][2]),
                        PushMissing(outer, col, cur_col, Len(inner)),
                        Append(value_mapping, todo[k][3]), k + 1)

\* mutant: the values are taken to stay in storage order
output_csr_IdentityMapping(cols, col_to_row, nnz) ==
  LET r == OutputCsrLoop(InOrder(col_to_row), 0, <<>>, <<0>>, <<>>, 1)
      outer_indices == PushMissing(r.outer, r.col, cols, Len(r.inner))
  IN CsrIndicesSpan(r.inner, outer_indices, [i \in 1..Len(r.inner) |-> i - 1],
                    /\ Len(outer_indices) = cols + 1
                    /\ Len(r.inner) = nnz
                    /\ Len(r.value_mapping) = nnz)

\* the lambda output_csr; cols is its capture
output_csr(cols, col_to_row, nnz) ==
  LET r == OutputCsrLoop(InOrder(col_to_row), 0, <<>>, <<0>>, <<>>, 1)
      outer_indices == PushMissing(r.outer, r.col, cols, Len(r.inner))
  IN CsrIndicesSpan(r.inner, outer_indices, r.value_mapping,
                    /\ Len(outer_indices) = cols + 1
                    /\ Len(r.inner) = nnz
                    /\ Len(r.value_mapping) = nnz)

\* the CSR branch: st = [map, status]
RECURSIVE TransposeCsrLoop(_, _, _, _, _, _)
TransposeCsrLoop(inner, outer, i, c, offset, st) ==
  IF i >= Len(outer) THEN st
  ELSE LET row == i - 1
           c_limit == outer[i + 1] - outer[i]
       IN IF c >= c_limit THEN TransposeCsrLoop(inner, outer, i + 1, 0, offset, st)
          ELSE IF c >= Len(inner) THEN [st EXCEPT !.status = Fault]
          ELSE LET col == inner[c + 1]
               IN IF ~InsertIsNew(st.map, col, row, offset)
                  THEN [st EXCEPT !.status = DuplicateCoordinate]
                  ELSE TransposeCsrLoop(inner, outer, i, c + 1, offset + 1,
                                        [st EXCEPT !.map = Insert(@, col, row, offset)])

\* the COO matrix branch; offset counts the entries done
RECURSIVE TransposeCooLoop(_, _, _, _, _)
TransposeCooLoop(cols, input_indices, ndims, offset, st) ==
  IF (ndims = 1 /\ offset >= Len(input_indices))
     \/ (ndims = 2 /\ 2 * offset >= Len(input_indices))
  THEN st
  ELSE LET idx == input_indices[offset + 1]
           cur_row == IF ndims = 1 THEN CppDiv(idx, cols)
                      ELSE input_indices[2 * offset + 1]
           cur_col == IF ndims = 1 THEN idx - cur_row * cols
                      ELSE input_indices[2 * offset + 2]
       IN IF ~InsertIsNew(st.map, cur_col, cur_row, offset)
          THEN [st EXCEPT !.status = DuplicateCoordinate]
          ELSE TransposeCooLoop(cols, input_indices, ndims, offset + 1,
                                [st EXCEPT !.map = Insert(@, cur_col, cur_row, offset)])

GetCsrIndicesAndTranspose(computed_dims, input) ==
  LET rows == computed_dims[1]
      cols == computed_dims[2]
      empty == [map |-> {}, status |-> OK]
  IN IF input.format = "csr"
     THEN IF Len(input.inner) = 0 THEN CsrIndicesSpan(<<>>, <<>>, <<>>, TRUE)
          ELSE IF rows = 1 \/ cols = 1
          THEN CsrIndicesSpan(input.inner, input.outer, <<>>, TRUE)
          ELSE LET st == TransposeCsrLoop(input.inner, input.outer, 1, 0, 0, empty)
               IN IF st.status # OK THEN FailedResult(st.status)
                  ELSE output_csr(cols, st.map, Len(input.inner))
     ELSE IF input.format # "coo" THEN FailedResult(InvalidFormat)
     ELSE IF Len(input.indices) = 0 THEN CsrIndicesSpan(<<>>, <<>>, <<>>, TRUE)
     ELSE IF input.indices_ndims \notin {1, 2} THEN FailedResult(MalformedIndices)
     ELSE IF rows = 1 \/ cols = 1
     THEN IF input.indices_ndims # 1 THEN FailedResult(InvalidIndexMode)
          ELSE CsrIndicesSpan(input.indices, <<0, Len(input.indices)>>, <<>>, TRUE)
     ELSE LET nnz == IF input.indices_ndims = 1 THEN Len(input.indices)
                     ELSE Len(input.indices) \div 2
              st == TransposeCooLoop(cols, input.indices, input.indices_ndims, 0, empty)
          IN IF st.status # OK THEN FailedResult(st.status)
             ELSE output_csr(cols, st.map, nnz)

\* ------------------------------------------------------- index matcher
\* mutant: a match advances a_ind only
ScanIteration_MatchKeepsB(a_indices, b_indices, a_ind, b_ind) ==
  LET a_v == a_indices[a_ind + 1]
      b_v == b_indices[b_ind + 1]
  IN IF a_v = b_v
     THEN [a_ind |-> a_ind + 1, b_ind |-> b_ind, cb |-> <<<<a_ind, b_ind>>>>]
     ELSE IF a_v < b_v THEN [a_ind |-> a_ind + 1, b_ind |-> b_ind, cb |-> <<>>]
     ELSE [a_ind |-> a_ind, b_ind |-> b_ind + 1, cb |-> <<>>]

\* mutant: the pointer holding the larger value is advanced
ScanIteration_AdvanceLarger(a_indices, b_indices, a_ind, b_ind) ==
  LET a_v == a_indices[a_ind + 1]
      b_v == b_indices[b_ind + 1]
  IN IF a_v = b_v
     THEN [a_ind |-> a_ind + 1, b_ind |-> b_ind + 1, cb |-> <<<<a_ind, b_ind>>>>]
     ELSE IF a_v > b_v THEN [a_ind |-> a_ind + 1, b_ind |-> b_ind, cb |-> <<>>]
     ELSE [a_ind |-> a_ind, b_ind |-> b_ind + 1, cb |-> <<>>]

\* one iteration of the while loop of ScanForSparseMatches:
\* the next positions and the pair handed to match_cb, if any
ScanIteration(a_indices, b_indices, a_ind, b_ind) ==
  LET a_v == a_indices[a_ind + 1]
      b_v == b_indices[b_ind + 1]
  IN IF a_v = b_v
     THEN [a_ind |-> a_ind + 1, b_ind |-> b_ind + 1, cb |-> <<<<a_ind, b_ind>>>>]
     ELSE IF a_v < b_v THEN [a_ind |-> a_ind + 1, b_ind |-> b_ind, cb |-> <<>>]
     ELSE [a_ind |-> a_ind, b_ind |-> b_ind + 1, cb |-> <<>>]

\* ------------------------------------------- inputs of the converters
Flatten(pairs) ==
  [i \in 1..2 * Len(pairs) |-> pairs[(i + 1) \div 2][IF i % 2 = 1 THEN 1 ELSE 2]]

\* the stored values are told apart by their position
ValuesOf(nnz) == [i \in 1..nnz |-> i]

CooInput(dims, indices, ndims, nnz) ==
  [format |-> "coo", dims |-> dims, type |-> NumericType(4), loc |-> CPU,
   values |-> ValuesOf(nnz), indices |-> indices, indices_ndims |-> ndims,
   inner |-> <<>>, outer |-> <<>>]

CooLinearInputs(r, c) ==
  {CooInput(<<r, c>>, idx, 1, Len(idx)) : idx \in SeqsUpTo(0..(r * c - 1), MaxNnz)}

Coo2DInputs(r, c) ==
  {CooInput(<<r, c>>, Flatten(p), 2, Len(p)) :
     p \in SeqsUpTo((0..(r - 1)) \X (0..(c - 1)), MaxNnz)}

\* outer pointer sequences of a CSR matrix with r rows and nnz entries
OutersOf(r, nnz) ==
  {o \in [1..(r + 1) -> 0..nnz] :
     /\ o[1] = 0
     /\ o[r + 1] = nnz
     /\ \A k \in 1..r : o[k] <= o[k + 1]}

CsrInputs(r, c) ==
  UNION {{MakeCsrData(NumericType(4), <<r, c>>, CPU, ValuesOf(Len(inner)), inner, o) :
            o \in OutersOf(r, Len(inner)) \cup (IF Len(inner) = 0 THEN {<<>>} ELSE {})} :
         inner \in SeqsUpTo(0..(c - 1), MaxNnz)}

\* the sparse matrices of one shape
ConverterInputs(r, c) ==
  CooLinearInputs(r, c) \cup Coo2DInputs(r, c) \cup CsrInputs(r, c)

\* ------------------------- inputs of the sparse -> dense conversions
\* sparse tensors as a caller may hand them over: index counts that do not
\* fit the value count, indices outside the shape, outer sequences that are
\* not monotone, unsupported ranks
GivenShapes == {<<2>>, <<2, 2>>, <<>>, <<1, 1, 1>>}
GivenTypes == {NumericType(4), NumericType(16), StringType}

GivenValues(type, nnz) ==
  [i \in 1..nnz |-> IF type.is_string THEN (IF i % 2 = 1 THEN "a" ELSE "b") ELSE i]

Zeros(k) == [i \in 1..k |-> 0]

\* COO index sequences for nnz values: linear, 2-D pairs, or a wrong count
GivenCooIndices(dims, nnz) ==
  LET size == ShapeSize(dims)
      pairs == IF Len(dims) = 2 THEN (-1..dims[1]) \X (-1..dims[2])
               ELSE {0} \X (0..(size - 1))
  IN [1..nnz -> -1..size]
     \cup (IF Len(dims) \in {1, 2} THEN {Flatten(p) : p \in [1..nnz -> pairs]} ELSE {})
     \cup {Zeros(k) : k \in (0..(2 * nnz + 2)) \ {nnz, 2 * nnz}}

\* CSR inner / outer sequences for nnz values
GivenCsrIndices(dims, nnz) ==
  IF Len(dims) # 2 THEN {<<Zeros(nnz), <<0, nnz>>>>}
  ELSE ([1..nnz -> -1..dims[2]] \X [1..(dims[1] + 1) -> 0..(nnz + 1)])
       \cup {<<Zeros(k), Zeros(dims[1] + 1)>> : k \in (0..(nnz + 1)) \ {nnz}}
       \cup {<<Zeros(nnz), Zeros(k)>> : k \in {0, dims[1], dims[1] + 2}}

GivenSparse(dims, type, nnz) ==
  {[format |-> "coo", dims |-> dims, type |-> type, loc |-> l,
    values |-> GivenValues(type, nnz), indices |-> idx,
    indices_ndims |-> IF Len(idx) = 2 * nnz /\ nnz > 0 THEN 2 ELSE 1,
    inner |-> <<>>, outer |-> <<>>] :
     l \in LocationsOf(type), idx \in GivenCooIndices(dims, nnz)}
  \cup
  {MakeCsrData(type, dims, l, GivenValues(type, nnz), io[1], io[2]) :
     l \in LocationsOf(type), io \in GivenCsrIndices(dims, nnz)}

\* ------------------------------------------------------------------ state
VARIABLES
  pc,            \* position of the caller of the dense <-> sparse conversions
  src,           \* the dense tensor the caller starts from
  linear_index,  \* the linear_index argument of the last dense -> COO call
  sparse,        \* the caller's SparseTensor dst
  dense,         \* the caller's Tensor dst
  status,        \* the Status returned by the last conversion call
  call,          \* the last conversion call: function and arguments
  copied,        \* the copies the last call handed to the data transfer
  outside,       \* the last call wrote outside its result buffer
  cpc,           \* position of the caller of the index converters
  input,         \* the sparse tensor given to the index converter
  conv,          \* what the index converter handed back
  input2,        \* the transposed CSR matrix built from conv
  conv2,         \* what the second transpose handed back
  spc,           \* position inside ScanForSparseMatches
  a_indices,
  b_indices,
  a_ind,
  b_ind,
  iterations,    \* loop iterations of ScanForSparseMatches so far
  matches,       \* the pairs passed to match_cb so far, in call order
  ready_,        \* CudaNotification::ready_
  npc,           \* position of the thread that calls notify
  wpc,           \* position of each waiting thread
  wfn,           \* the wait function each waiting thread called
  spun,          \* the waiting thread has found ready_ false at least once
  cuda_calls,    \* the CUDA API calls made on event_, in the order made
  registry       \* the stream command handle registry

denseVars == <<pc, src, linear_index, sparse, dense, status, call, copied, outside>>
convVars == <<cpc, input, conv, input2, conv2>>
scanVars == <<spc, a_indices, b_indices, a_ind, b_ind, iterations, matches>>
cudaVars == <<ready_, npc, wpc, wfn, spun, cuda_calls, registry>>
vars == <<denseVars, convVars, scanVars, cudaVars>>

\* has_transfer: GetDataTransfer found a transfer from the host to the
\* destination device; TRUE for the functions that do not look one up
Call(fn, dst_device, has_transfer) ==
  [fn |-> fn, dst_device |-> dst_device, has_transfer |-> has_transfer]
NoCall == Call("none", CPU, TRUE)

DenseIdle ==
  /\ pc = "off"
  /\ src = NoTensor
  /\ linear_index = TRUE
  /\ sparse = NoSparse
  /\ dense = NoTensor
  /\ status = "none"
  /\ call = NoCall
  /\ copied = <<>>
  /\ outside = FALSE

ConvIdle ==
  /\ cpc = "off"
  /\ input = NoSparse
  /\ conv = NoResult
  /\ input2 = NoSparse
  /\ conv2 = NoResult

ScanIdle ==
  /\ spc = "off"
  /\ a_indices = <<>>
  /\ b_indices = <<>>
  /\ a_ind = 0
  /\ b_ind = 0
  /\ iterations = 0
  /\ matches = <<>>

Waiters == 1..NumWaiters

\* the registry before RegisterCudaStreamHandles
EmptyRegistry ==
  [wait |-> {}, notify |-> {}, create_notification |-> {},
   release_notification |-> {}, create_stream |-> {}, release_stream |-> {}]

CudaIdle ==
  /\ ready_ = FALSE
  /\ npc = "off"
  /\ wpc = [w \in Waiters |-> "off"]
  /\ wfn = [w \in Waiters |-> "none"]
  /\ spun = [w \in Waiters |-> FALSE]
  /\ cuda_calls = <<>>
  /\ registry = EmptyRegistry

\* ---------------------------------------- dense <-> sparse conversion calls
Init ==
  /\ pc = "src"
  /\ \E d \in DenseShapes, t \in ElementTypes : src \in DenseTensorsOf(d, t)
  /\ linear_index = TRUE
  /\ sparse = NoSparse
  /\ dense = NoTensor
  /\ status = "none"
  /\ call = NoCall
  /\ copied = <<>>
  /\ outside = FALSE
  /\ ConvIdle
  /\ ScanIdle
  /\ CudaIdle

\* the caller holds a sparse tensor it got from elsewhere
InitSparse ==
  /\ pc = "given"
  /\ src = NoTensor
  /\ linear_index = TRUE
  /\ \E d \in GivenShapes, t \in GivenTypes, nnz \in 0..MaxGivenNnz :
       sparse \in GivenSparse(d, t, nnz)
  /\ dense = NoTensor
  /\ status = "none"
  /\ call = NoCall
  /\ copied = <<>>
  /\ outside = FALSE
  /\ ConvIdle
  /\ ScanIdle
  /\ CudaIdle

CallDenseTensorToSparseCsr ==
  /\ pc = "src"
  /\ \E dst_device \in Devices, has_transfer \in BOOLEAN, fail_at \in 0..4 :
       LET r == DenseTensorToSparseCsr(src, dst_device, has_transfer, fail_at, sparse)
       IN /\ sparse' = r.dst
          /\ status' = r.status
          /\ copied' = r.copied
          /\ outside' = r.outside
          /\ call' = Call("DenseTensorToSparseCsr", dst_device, has_transfer)
  /\ pc' = "sparse"
  /\ UNCHANGED <<src, linear_index, dense, convVars, scanVars, cudaVars>>

CallDenseTensorToSparseCoo ==
  /\ pc = "src"
  /\ \E dst_device \in Devices, linear \in BOOLEAN, has_transfer \in BOOLEAN,
        fail_at \in 0..3 :
       LET r == DenseTensorToSparseCoo(src, dst_device, linear, has_transfer,
                                       fail_at, sparse)
       IN /\ sparse' = r.dst
          /\ status' = r.status
          /\ copied' = r.copied
          /\ outside' = r.outside
          /\ call' = Call("DenseTensorToSparseCoo", dst_device, has_transfer)
          /\ linear_index' = linear
  /\ pc' = "sparse"
  /\ UNCHANGED <<src, dense, convVars, scanVars, cudaVars>>

\* the caller converts back what the last call produced, or converts the
\* sparse tensor it was given
CallSparseCsrToDenseTensor ==
  /\ pc \in {"sparse", "given"}
  /\ status \in {OK, "none"}
  /\ \E dst_device \in Devices, fail_at \in 0..2 :
       \E r \in {SparseCsrToDenseTensor(sparse, dst_device, fail_at, ub, dense) :
                   ub \in UBOutcomes} :
          /\ dense' = r.dst
          /\ status' = r.status
          /\ copied' = r.copied
          /\ outside' = r.outside
          /\ call' = Call("SparseCsrToDenseTensor", dst_device, TRUE)
  /\ pc' = "dense"
  /\ UNCHANGED <<src, linear_index, sparse, convVars, scanVars, cudaVars>>

CallSparseCooToDenseTensor ==
  /\ pc \in {"sparse", "given"}
  /\ status \in {OK, "none"}
  /\ \E dst_device \in Devices, fail_at \in 0..2 :
       \E r \in {SparseCooToDenseTensor(sparse, dst_device, fail_at, ub, junk, dense) :
                   ub \in UBOutcomes, junk \in Junk} :
          /\ dense' = r.dst
          /\ status' = r.status
          /\ copied' = r.copied
          /\ outside' = r.outside
          /\ call' = Call("SparseCooToDenseTensor", dst_device, TRUE)
  /\ pc' = "dense"
  /\ UNCHANGED <<src, linear_index, sparse, convVars, scanVars, cudaVars>>

Next ==
  \/ CallDenseTensorToSparseCsr
  \/ CallDenseTensorToSparseCoo
  \/ CallSparseCsrToDenseTensor
  \/ CallSparseCooToDenseTensor

Spec == Init /\ [][Next]_vars

\* the sparse -> dense conversions on sparse tensors handed over as they are
NextSparse ==
  \/ CallSparseCsrToDenseTensor
  \/ CallSparseCooToDenseTensor

SpecSparse == InitSparse /\ [][NextSparse]_vars

\* both kinds of caller; the one that starts from a dense tensor holds one
\* of at most MaxAllElems elements
InitAll ==
  \/ Init /\ ShapeSize(src.dims) <= MaxAllElems
  \/ InitSparse

SpecAll == InitAll /\ [][Next]_vars

\* ------------------------------------------------- index converter calls
InitConv ==
  /\ cpc = "input"
  /\ \E r \in 1..MaxDim, c \in 1..MaxDim : input \in ConverterInputs(r, c)
  /\ conv = NoResult
  /\ input2 = NoSparse
  /\ conv2 = NoResult
  /\ DenseIdle
  /\ ScanIdle
  /\ CudaIdle

CallGetCoo1DIndicesAndMaybeConvert ==
  /\ cpc = "input"
  /\ conv' = GetCoo1DIndicesAndMaybeConvert(input)
  /\ cpc' = "coo1d"
  /\ UNCHANGED <<input, input2, conv2, denseVars, scanVars, cudaVars>>

CallGetCsrIndicesAndMaybeConvert ==
  /\ cpc = "input"
  /\ conv' = GetCsrIndicesAndMaybeConvert(input.dims, input)
  /\ cpc' = "csr"
  /\ UNCHANGED <<input, input2, conv2, denseVars, scanVars, cudaVars>>

CallGetCsrIndicesAndTranspose ==
  /\ cpc = "input"
  /\ conv' = GetCsrIndicesAndTranspose(input.dims, input)
  /\ cpc' = "transposed"
  /\ UNCHANGED <<input, input2, conv2, denseVars, scanVars, cudaVars>>

\* the values of a transposed matrix: position i holds the original value at
\* value_mapping[i]; without a mapping the values stay where they are
PermuteValues(values, value_mapping) ==
  IF Len(value_mapping) = Len(values)
  THEN [i \in 1..Len(values) |-> values[value_mapping[i] + 1]]
  ELSE values

\* the caller builds the CSR matrix of the swapped shape from the indices it
\* got and transposes that matrix again
CallGetCsrIndicesAndTransposeAgain ==
  /\ cpc = "transposed"
  /\ conv.status = OK
  /\ LET built == MakeCsrData(input.type, <<input.dims[2], input.dims[1]>>, CPU,
                              PermuteValues(input.values, conv.value_mapping),
                              conv.inner, conv.outer)
     IN /\ input2' = built
        /\ conv2' = GetCsrIndicesAndTranspose(built.dims, built)
  /\ cpc' = "transposed2"
  /\ UNCHANGED <<input, conv, denseVars, scanVars, cudaVars>>

NextConv ==
  \/ CallGetCoo1DIndicesAndMaybeConvert
  \/ CallGetCsrIndicesAndMaybeConvert
  \/ CallGetCsrIndicesAndTranspose
  \/ CallGetCsrIndicesAndTransposeAgain

SpecConv == InitConv /\ [][NextConv]_vars

\* ------------------------------------------------- ScanForSparseMatches
InitScan ==
  /\ spc = "loop"
  /\ \E n \in 0..MaxScanLen : a_indices \in [1..n -> 0..MaxScanVal]
  /\ \E n \in 0..MaxScanLen : b_indices \in [1..n -> 0..MaxScanVal]
  /\ a_ind = 0
  /\ b_ind = 0
  /\ iterations = 0
  /\ matches = <<>>
  /\ DenseIdle
  /\ ConvIdle
  /\ CudaIdle

ScanLoop ==
  /\ spc = "loop"
  /\ a_ind < Len(a_indices) /\ b_ind < Len(b_indices)
  /\ LET r == ScanIteration(a_indices, b_indices, a_ind, b_ind)
     IN /\ a_ind' = r.a_ind
        /\ b_ind' = r.b_ind
        /\ matches' = matches \o r.cb
  /\ iterations' = iterations + 1
  /\ UNCHANGED <<spc, a_indices, b_indices, denseVars, convVars, cudaVars>>

ScanReturn ==
  /\ spc = "loop"
  /\ ~(a_ind < Len(a_indices) /\ b_ind < Len(b_indices))
  /\ spc' = "done"
  /\ UNCHANGED <<a_indices, b_indices, a_ind, b_ind, iterations, matches,
                 denseVars, convVars, cudaVars>>

NextScan ==
  \/ ScanLoop
  \/ ScanReturn

SpecScan == InitScan /\ [][NextScan]_vars

\* ------------------------------------------------------ CudaNotification
kCudaExecutionProvider == "CUDAExecutionProvider"

\* mutant: the loop is left at once
SpinAgain_Never(loaded) == FALSE

\* mutant: the loop is never left
SpinAgain_Always(loaded) == TRUE

\* while (!ready_.load())
SpinAgain(loaded) == ~loaded

\* the CUDA call a wait function makes once it has left its loop
WaitCallOf(fn) ==
  IF fn = "WaitCudaNotificationOnDevice" THEN "cudaStreamWaitEvent"
  ELSE "cudaEventSynchronize"

\* one CUDA API call and whether it returned cudaSuccess
CudaCall(api, by, ok) == [api |-> api, by |-> by, ok |-> ok]

\* what registering under a key that holds a function already does; the
\* registry behind IStreamCommandHandleRegistry may keep the function it
\* holds or take the new one
OnDuplicate == {"keep", "replace"}

\* wait_map holds <<notifier, waiter, fn>>, at most one per (notifier, waiter)
RegisterWaitFn(wait_map, notifier, waiter, fn, on_duplicate) ==
  LET held == {e \in wait_map : e[1] = notifier /\ e[2] = waiter}
  IN IF held = {} THEN wait_map \cup {<<notifier, waiter, fn>>}
     ELSE IF on_duplicate = "keep" THEN wait_map
     ELSE (wait_map \ held) \cup {<<notifier, waiter, fn>>}

\* the per-provider registrations: reg holds <<provider, fn>>
RegisterFn(reg, provider, fn) ==
  {e \in reg : e[1] # provider} \cup {<<provider, fn>>}

RegisterCudaStreamHandles(stream_handle_registry, on_duplicate) ==
  LET first == RegisterWaitFn(stream_handle_registry.wait, kCudaExecutionProvider,
                              kCudaExecutionProvider,
                              "WaitCudaNotificationOnDevice", on_duplicate)
      second == RegisterWaitFn(first, kCudaExecutionProvider, kCudaExecutionProvider,
                               "WaitCudaNotificationOnHost", on_duplicate)
  IN [wait |-> second,
      notify |-> RegisterFn(stream_handle_registry.notify, kCudaExecutionProvider,
                            "NotifyCudaNotification"),
      create_notification |->
        RegisterFn(stream_handle_registry.create_notification,
                   kCudaExecutionProvider, "CreateCudaNotification"),
      release_notification |->
        RegisterFn(stream_handle_registry.release_notification,
                   kCudaExecutionProvider, "ReleaseCUdaNotification"),
      create_stream |-> RegisterFn(stream_handle_registry.create_stream,
                                   kCudaExecutionProvider, "CreateCudaStream"),
      release_stream |-> RegisterFn(stream_handle_registry.release_stream,
                                    kCudaExecutionProvider, "ReleaseCPUStram")]

\* one CudaNotification just constructed (ready_{} is false), one thread that
\* may notify it and NumWaiters threads that may wait on it
InitCuda ==
  /\ ready_ = FALSE
  /\ npc = "idle"
  /\ wpc = [w \in Waiters |-> "idle"]
  /\ wfn = [w \in Waiters |-> "none"]
  /\ spun = [w \in Waiters |-> FALSE]
  /\ cuda_calls = <<>>
  /\ registry = EmptyRegistry
  /\ DenseIdle
  /\ ConvIdle
  /\ ScanIdle

otherVars == <<denseVars, convVars, scanVars>>

CallRegisterCudaStreamHandles ==
  /\ registry = EmptyRegistry
  /\ \E on_duplicate \in OnDuplicate :
       registry' = RegisterCudaStreamHandles(registry, on_duplicate)
  /\ UNCHANGED <<ready_, npc, wpc, wfn, spun, cuda_calls, otherVars>>

\* NotifyCudaNotification -> notify()
CallNotify ==
  /\ npc = "idle"
  /\ npc' = "record"
  /\ UNCHANGED <<ready_, wpc, wfn, spun, cuda_calls, registry, otherVars>>

\* CUDA_CALL_THROW(cudaEventRecordWithFlags(...)): a failure leaves notify
\* by an exception
NotifyRecord ==
  /\ npc = "record"
  /\ \E ok \in BOOLEAN :
       /\ cuda_calls' = Append(cuda_calls, CudaCall("cudaEventRecordWithFlags", 0, ok))
       /\ npc' = IF ok THEN "store" ELSE "thrown"
  /\ UNCHANGED <<ready_, wpc, wfn, spun, registry, otherVars>>

\* ready_.store(true) and the return
NotifyStore ==
  /\ npc = "store"
  /\ ready_' = TRUE
  /\ npc' = "done"
  /\ UNCHANGED <<wpc, wfn, spun, cuda_calls, registry, otherVars>>

\* WaitCudaNotificationOnDevice / WaitCudaNotificationOnHost
CallWait(w) ==
  /\ wpc[w] = "idle"
  /\ \E fn \in {"WaitCudaNotificationOnDevice", "WaitCudaNotificationOnHost"} :
       wfn' = [wfn EXCEPT ![w] = fn]
  /\ wpc' = [wpc EXCEPT ![w] = "load"]
  /\ UNCHANGED <<ready_, npc, spun, cuda_calls, registry, otherVars>>

\* one evaluation of the loop condition
WaitLoad(w) ==
  /\ wpc[w] = "load"
  /\ IF SpinAgain(ready_)
     THEN /\ wpc' = [wpc EXCEPT ![w] = "pause"]
          /\ spun' = [spun EXCEPT ![w] = TRUE]
     ELSE /\ wpc' = [wpc EXCEPT ![w] = "wait"]
          /\ UNCHANGED spun
  /\ UNCHANGED <<ready_, npc, wfn, cuda_calls, registry, otherVars>>

\* onnxruntime::concurrency::SpinPause()
WaitSpinPause(w) ==
  /\ wpc[w] = "pause"
  /\ wpc' = [wpc EXCEPT ![w] = "load"]
  /\ UNCHANGED <<ready_, npc, wfn, spun, cuda_calls, registry, otherVars>>

\* CUDA_CALL_THROW(cudaStreamWaitEvent(stream_, event_)) or
\* CUDA_CALL_THROW(cudaEventSynchronize(event_))
WaitIssue(w) ==
  /\ wpc[w] = "wait"
  /\ \E ok \in BOOLEAN :
       /\ cuda_calls' = Append(cuda_calls, CudaCall(WaitCallOf(wfn[w]), w, ok))
       /\ wpc' = [wpc EXCEPT ![w] = IF ok THEN "done" ELSE "thrown"]
  /\ UNCHANGED <<ready_, npc, wfn, spun, registry, otherVars>>

NextCuda ==
  \/ CallRegisterCudaStreamHandles
  \/ CallNotify
  \/ NotifyRecord
  \/ NotifyStore
  \/ \E w \in Waiters : CallWait(w)
  \/ \E w \in Waiters : WaitLoad(w)
  \/ \E w \in Waiters : WaitSpinPause(w)
  \/ \E w \in Waiters : WaitIssue(w)

SpecCuda == InitCuda /\ [][NextCuda]_vars

\* every thread that is inside notify or a wait function keeps running; when
\* the functions are called is up to the callers
FairCuda ==
  /\ WF_vars(NotifyRecord)
  /\ WF_vars(NotifyStore)
  /\ \A w \in Waiters :
       WF_vars(WaitLoad(w)) /\ WF_vars(WaitSpinPause(w)) /\ WF_vars(WaitIssue(w))

SpecCudaFair == InitCuda /\ [][NextCuda]_vars /\ FairCuda

\* ===================================================================
\* Properties
\* ===================================================================

\* the offsets of the non-zero elements of a dense buffer, ascending
RECURSIVE NzOffsetsFrom(_, _, _)
NzOffsetsFrom(type, data, k) ==
  IF k >= Len(data) THEN <<>>
  ELSE IF data[k + 1] # ZeroOf(type)
       THEN <<k>> \o NzOffsetsFrom(type, data, k + 1)
       ELSE NzOffsetsFrom(type, data, k + 1)
NzOffsets(t) == NzOffsetsFrom(t.type, t.data, 0)

HasTwoDistinctValues(seq) == \E i, j \in 1..Len(seq) : seq[i] # seq[j]
HasZero(t) == \E k \in 1..Len(t.data) : t.data[k] = ZeroOf(t.type)

CsrRoundTripDone == pc = "dense" /\ sparse.format = "csr" /\ status = OK
CooRoundTripDone == pc = "dense" /\ sparse.format = "coo" /\ status = OK

\* C1: a dense tensor converted by DenseTensorToSparseCsr and back by
\* SparseCsrToDenseTensor equals the tensor the caller started from, element
\* for element.
C1_CsrRoundTrip ==
  CsrRoundTripDone => (dense.dims = src.dims /\ dense.data = src.data)

\* C2: a 1-D or 2-D dense tensor converted by DenseTensorToSparseCoo (linear
\* or 2-D indices) and back by SparseCooToDenseTensor equals the tensor the
\* caller started from, element for element.
C2_CooRoundTrip ==
  CooRoundTripDone => (dense.dims = src.dims /\ dense.data = src.data)

\* a 2-D round trip through 2-D indices of a non-square tensor holding a zero
\* and two different non-zero values
C2_Witness ==
  /\ CooRoundTripDone
  /\ src.dims = <<3, 2>>
  /\ sparse.indices_ndims = 2
  /\ HasZero(src)
  /\ HasTwoDistinctValues(sparse.values)
  /\ dense.data = src.data

OuterWellFormed(outer, rows, nnz) ==
  /\ Len(outer) = rows + 1
  /\ \A k \in 1..(Len(outer) - 1) : outer[k] <= outer[k + 1]
  /\ outer[1] = 0
  /\ outer[Len(outer)] = nnz

\* C3 as stated: after every successful DenseTensorToSparseCsr, an all-zero
\* input included, outer has length rows+1, is non-decreasing, starts with 0
\* and ends with nnz.
C3_OuterAlwaysWellFormed ==
  sparse.format = "csr" =>
    Len(sparse.outer) > 0 /\ OuterWellFormed(sparse.outer, src.dims[1], Len(sparse.values))

\* C3 amended: after a successful DenseTensorToSparseCsr on a tensor with at
\* least one non-zero element, outer has length rows+1, is non-decreasing,
\* starts with 0 and ends with nnz; for an all-zero tensor the result has no
\* values, no inner indices and an empty outer sequence.
C3_OuterStructure ==
  sparse.format = "csr" =>
    IF NzOffsets(src) # <<>>
    THEN /\ Len(sparse.outer) > 0
         /\ OuterWellFormed(sparse.outer, src.dims[1], Len(sparse.values))
    ELSE sparse.values = <<>> /\ sparse.inner = <<>> /\ sparse.outer = <<>>

\* a three-row tensor whose middle row is all zero
C3_Witness ==
  /\ pc = "sparse"
  /\ sparse.format = "csr"
  /\ src.dims = <<3, 2>>
  /\ sparse.outer = <<0, 1, 1, 2>>

\* C4: for a tensor with at least one non-zero element DenseTensorToSparseCsr
\* stores the non-zero elements in row-major order, inner[i] is the column of
\* the i-th stored value and outer[r] is the number of non-zero elements in
\* the rows before r, for every row and one past the last.
C4_CsrContent ==
  (sparse.format = "csr" /\ NzOffsets(src) # <<>>) =>
    LET offs == NzOffsets(src)
        rows == src.dims[1]
        cols == src.dims[2]
    IN /\ sparse.values = [i \in 1..Len(offs) |-> src.data[offs[i] + 1]]
       /\ sparse.inner = [i \in 1..Len(offs) |-> offs[i] % cols]
       /\ sparse.outer =
            [r \in 1..(rows + 1) |->
               Cardinality({i \in 1..Len(offs) : offs[i] \div cols < r - 1})]

\* the matrix [[0,255],[1,0]]
C4_Witness ==
  /\ pc = "sparse"
  /\ src.dims = <<2, 2>>
  /\ src.data = <<0, 255, 1, 0>>
  /\ sparse.format = "csr"
  /\ sparse.values = <<255, 1>>
  /\ sparse.inner = <<1, 0>>
  /\ sparse.outer = <<0, 1, 2>>

\* C5: DenseTensorToSparseCoo stores the non-zero elements in row-major
\* order; with linear indices the i-th index is the row-major offset of the
\* i-th value (nnz indices), with 2-D indices the i-th pair is
\* (offset / cols, offset mod cols) (2*nnz indices).
C5_CooContent ==
  sparse.format = "coo" =>
    LET offs == NzOffsets(src)
        nnz == Len(offs)
        cols == IF Len(src.dims) = 2 THEN src.dims[2] ELSE src.dims[1]
    IN /\ sparse.values = [i \in 1..nnz |-> src.data[offs[i] + 1]]
       /\ IF linear_index
          THEN sparse.indices = offs
          ELSE /\ Len(sparse.indices) = 2 * nnz
               /\ \A i \in 1..nnz :
                    /\ sparse.indices[2 * i - 1] = offs[i] \div cols
                    /\ sparse.indices[2 * i] = offs[i] % cols

\* 2-D indices of a 2x3 tensor with entries in both rows
C5_Witness ==
  /\ pc = "sparse"
  /\ sparse.format = "coo"
  /\ ~linear_index
  /\ src.dims = <<2, 3>>
  /\ src.data = <<0, 0, 255, 0, 1, 0>>
  /\ sparse.indices = <<0, 2, 1, 1>>
  /\ sparse.values = <<255, 1>>

\* ------------------------------------------------ converter properties
NonVector(t) == Len(t.dims) = 2 /\ t.dims[1] > 1 /\ t.dims[2] > 1

\* the row whose outer range holds position p
RowOf(outer, p) ==
  CHOOSE r \in 0..(Len(outer) - 2) : outer[r + 1] <= p /\ p < outer[r + 2]

\* number of stored entries of a converter input
Nnz(t) == Len(t.values)

\* (row, col) of the entry stored at position p (0-based) of a sparse matrix
CoordAt(t, p) ==
  IF t.format = "csr" THEN <<RowOf(t.outer, p), t.inner[p + 1]>>
  ELSE IF t.indices_ndims = 1
       THEN <<t.indices[p + 1] \div t.dims[2], t.indices[p + 1] % t.dims[2]>>
       ELSE <<t.indices[2 * p + 1], t.indices[2 * p + 2]>>

CoordSet(t) == {CoordAt(t, p) : p \in 0..(Nnz(t) - 1)}
EntrySet(t) == {<<CoordAt(t, p)[1], CoordAt(t, p)[2], t.values[p + 1]>> :
                  p \in 0..(Nnz(t) - 1)}
HasDuplicate(t) ==
  \E p, q \in 0..(Nnz(t) - 1) : p # q /\ CoordAt(t, p) = CoordAt(t, q)

\* the coordinates an inner / outer pair stands for: row r for the positions
\* outer[r] .. outer[r+1]-1, column inner[i]
CsrPositions(inner, outer) ==
  UNION {{<<r, i>> : i \in {j \in outer[r + 1]..(outer[r + 2] - 1) : j < Len(inner)}} :
           r \in 0..(Len(outer) - 2)}
CsrCoordSet(inner, outer) ==
  {<<x[1], inner[x[2] + 1]>> : x \in CsrPositions(inner, outer)}
CsrEntrySet(inner, outer, values) ==
  {<<x[1], inner[x[2] + 1], values[x[2] + 1]>> : x \in CsrPositions(inner, outer)}

\* C6: for a CSR matrix with rows > 1 and cols > 1 that satisfies the CSR
\* invariants, GetCoo1DIndicesAndMaybeConvert returns nnz linear indices, the
\* i-th being row(i)*cols + inner[i].
C6_CsrToCooIndices ==
  (cpc = "coo1d" /\ input.format = "csr" /\ NonVector(input) /\ Nnz(input) > 0) =>
    /\ conv.status = OK
    /\ conv.indices =
         [i \in 1..Nnz(input) |->
            RowOf(input.outer, i - 1) * input.dims[2] + input.inner[i]]

\* C7 as stated: for a COO matrix with rows > 1, cols > 1, nnz > 0 and
\* in-range indices in any order, the inner / outer pair returned by
\* GetCsrIndicesAndMaybeConvert stands for exactly the coordinate set of the
\* input.
C7_CooToCsrAnyOrder ==
  (cpc = "csr" /\ input.format = "coo" /\ NonVector(input) /\ Nnz(input) > 0) =>
    /\ conv.status = OK
    /\ CsrCoordSet(conv.inner, conv.outer) = CoordSet(input)

RowsNonDecreasing(t) ==
  \A p \in 0..(Nnz(t) - 2) : CoordAt(t, p)[1] <= CoordAt(t, p + 1)[1]

\* C7 amended: for a COO matrix with rows > 1, cols > 1, nnz > 0 and in-range
\* indices (linear or 2-D) whose rows are in non-decreasing order, the
\* inner / outer pair returned by GetCsrIndicesAndMaybeConvert stands for
\* exactly the coordinate set of the input.
C7_CooToCsrRowOrdered ==
  (cpc = "csr" /\ input.format = "coo" /\ NonVector(input) /\ Nnz(input) > 0
     /\ RowsNonDecreasing(input)) =>
    /\ conv.status = OK
    /\ CsrCoordSet(conv.inner, conv.outer) = CoordSet(input)

\* linear indices of a 3x3 matrix: two entries of row 1 with descending
\* columns, rows 0 and 2 empty
C7_Witness ==
  /\ cpc = "csr"
  /\ input.format = "coo"
  /\ input.dims = <<3, 3>>
  /\ input.indices = <<5, 3>>
  /\ conv.inner = <<2, 0>>
  /\ conv.outer = <<0, 0, 2, 2>>

\* C8: for a matrix of shape (R,C) without duplicate coordinate, transposing
\* with GetCsrIndicesAndTranspose, building the (C,R) CSR matrix from the
\* result with the values permuted by value_mapping and transposing that
\* matrix again gives back the original set of (row, col, value) entries.
C8_DoubleTranspose ==
  (cpc = "transposed2" /\ NonVector(input) /\ ~HasDuplicate(input)) =>
    /\ conv2.status = OK
    /\ CsrEntrySet(conv2.inner, conv2.outer,
                   PermuteValues(input2.values, conv2.value_mapping))
         = EntrySet(input)

\* C9: GetCsrIndicesAndTranspose on a non-vector matrix in which two stored
\* entries have the same (row, col) fails with DuplicateCoordinate and hands
\* back no indices.
C9_DuplicateRejected ==
  (cpc = "transposed" /\ NonVector(input) /\ HasDuplicate(input)) =>
    /\ conv.status = DuplicateCoordinate
    /\ conv.inner = <<>>
    /\ conv.outer = <<>>

\* ---------------------------------------------------- matcher properties
Ascending(seq) == \A i \in 1..(Len(seq) - 1) : seq[i] <= seq[i + 1]
StrictlyAscending(seq) == \A i \in 1..(Len(seq) - 1) : seq[i] < seq[i + 1]

BruteForceMatches(a, b) ==
  {x \in (0..(Len(a) - 1)) \X (0..(Len(b) - 1)) : a[x[1] + 1] = b[x[2] + 1]}
MatchSet == {matches[k] : k \in 1..Len(matches)}

\* C10 as stated: for ascending sequences A and B the pairs passed to the
\* callback are exactly the pairs (i, j) with A[i] = B[j].
C10_MatchesAscending ==
  (spc = "done" /\ Ascending(a_indices) /\ Ascending(b_indices)) =>
    MatchSet = BruteForceMatches(a_indices, b_indices)

\* C10 amended: for strictly ascending sequences A and B (no value repeated
\* within a sequence) the pairs passed to the callback are exactly the pairs
\* (i, j) with A[i] = B[j].
C10_MatchesStrictlyAscending ==
  (spc = "done" /\ StrictlyAscending(a_indices) /\ StrictlyAscending(b_indices)) =>
    MatchSet = BruteForceMatches(a_indices, b_indices)

\* partial overlap
C10_Witness ==
  /\ spc = "done"
  /\ a_indices = <<0, 1, 2>>
  /\ b_indices = <<0, 2>>
  /\ matches = <<<<0, 0>>, <<2, 1>>>>

\* ------------------------------------------- error handling properties
DenseToSparse == {"DenseTensorToSparseCsr", "DenseTensorToSparseCoo"}
SparseToDense == {"SparseCsrToDenseTensor", "SparseCooToDenseTensor"}

\* the call came back with a failure: a Status that is not OK or an
\* exception (a terminated process comes back with nothing)
Failed(s) == s \notin {OK, Fault, "none"}

\* C11: whenever one of the four conversions comes back with a failure, the
\* caller's destination (sparse for the dense -> sparse calls, dense for the
\* sparse -> dense calls) is exactly what it was before the call.
C11_NoPartialCommit ==
  [][Failed(status') => (sparse' = sparse /\ dense' = dense)]_vars

\* a sparse -> dense call whose input was staged and scattered and whose last
\* copy, the one to the destination device, failed
C11_Witness ==
  /\ pc = "dense"
  /\ call.fn \in SparseToDense
  /\ Len(sparse.values) > 0
  /\ status = CopyFailed
  /\ copied = <<"src", "dst">>
  /\ dense = NoTensor

\* the sparse -> dense call got past the rank, format and string location
\* checks that come before the index checks
ReachedIndexChecks ==
  /\ pc = "dense"
  /\ call.fn \in SparseToDense
  /\ status \notin {UnsupportedRank, InvalidFormat, UnsupportedLocationForStrings}

\* C12: for a sparse tensor that holds values (one without values is
\* accepted whatever its index counts, see C18), SparseCsrToDenseTensor
\* returns MalformedIndices whenever the inner count differs from the value
\* count or the outer count differs from rows+1, and SparseCooToDenseTensor
\* returns it whenever the index count is neither the value count nor twice
\* the value count.
C12_MalformedReturned ==
  (ReachedIndexChecks /\ Len(sparse.values) > 0) =>
    /\ (/\ sparse.format = "csr"
        /\ \/ Len(sparse.inner) # Len(sparse.values)
           \/ Len(sparse.outer) # sparse.dims[1] + 1)
         => status = MalformedIndices
    /\ (/\ sparse.format = "coo"
        /\ Len(sparse.indices) \notin {Len(sparse.values), 2 * Len(sparse.values)})
         => status = MalformedIndices

\* the sparse -> dense call ran its scatter loop: it passed the index count,
\* element width and staging steps as well
ReachedScatter ==
  /\ ReachedIndexChecks
  /\ Len(sparse.values) > 0
  /\ status \notin {MalformedIndices, EnforceFailed, UnsupportedElementWidth}
  /\ ~(status = CopyFailed /\ copied = <<"src">>)

LinearIndices(t) == t.format = "coo" /\ Len(t.indices) = Len(t.values)

\* C13: in SparseCooToDenseTensor with linear indices, an index outside
\* [0, rows*cols) makes the conversion fail with IndexOutOfRange, and no
\* element is written outside the dense buffer.
C13_LinearInBounds ==
  (ReachedScatter /\ LinearIndices(sparse)) =>
    /\ (\E i \in 1..Len(sparse.indices) :
          sparse.indices[i] \notin 0..(ShapeSize(sparse.dims) - 1))
         => status = IndexOutOfRange
    /\ ~outside

\* C14: with a transfer path to the destination at hand, a dense -> sparse
\* conversion (DenseTensorToSparseCsr or DenseTensorToSparseCoo) fails with
\* UnsupportedRank exactly when the rank of the dense tensor is outside
\* {1, 2}; a 1-D and a 2-D tensor are accepted by both.
C14_RankCheck ==
  (call.fn \in DenseToSparse /\ call.has_transfer) =>
    (status = UnsupportedRank <=> Len(src.dims) \notin {1, 2})

\* C15 as stated: DenseTensorToSparseCoo on a 1-D tensor with 2-D indices
\* requested fails with InvalidIndexMode, and in no other case does it fail
\* with InvalidIndexMode.
C15_IndexModeAlways ==
  call.fn = "DenseTensorToSparseCoo" =>
    /\ (Len(src.dims) = 1 /\ ~linear_index) => status = InvalidIndexMode
    /\ status = InvalidIndexMode => (Len(src.dims) = 1 /\ ~linear_index)

\* C15 amended: when a data transfer from the host to the destination device
\* exists, DenseTensorToSparseCoo on a 1-D tensor with 2-D indices requested
\* fails with InvalidIndexMode; without one it fails with NoTransferPath
\* before it looks at the shape.  On a 1-D tensor with linear indices or a
\* 2-D tensor with either encoding it never fails with InvalidIndexMode.
C15_IndexMode ==
  call.fn = "DenseTensorToSparseCoo" =>
    /\ (Len(src.dims) = 1 /\ ~linear_index) =>
         status = (IF call.has_transfer THEN InvalidIndexMode ELSE NoTransferPath)
    /\ status = InvalidIndexMode => (Len(src.dims) = 1 /\ ~linear_index)

\* a 1-D tensor with a non-zero element, 2-D indices requested
C15_Witness ==
  /\ pc = "sparse"
  /\ call.fn = "DenseTensorToSparseCoo"
  /\ call.has_transfer
  /\ src.dims = <<3>>
  /\ NzOffsets(src) # <<>>
  /\ ~linear_index
  /\ status = InvalidIndexMode
  /\ sparse = NoSparse

\* the tensor the last call was asked to convert
CallInput == IF call.fn \in DenseToSparse THEN src ELSE sparse

StringsToDevice ==
  /\ call.fn \in DenseToSparse \cup SparseToDense
  /\ CallInput.type.is_string
  /\ call.dst_device # CPU

\* C16 as stated: each of the four conversions, given a string input and a
\* destination that is not the host, fails with UnsupportedLocationForStrings
\* whatever else is true of the input or of the transfer paths, and hands
\* nothing to the data transfer.
C16_StringsAlwaysRejected ==
  StringsToDevice => (status = UnsupportedLocationForStrings /\ copied = <<>>)

\* the checks each conversion makes before it looks at the element type
PassesEarlierChecks ==
  CASE call.fn = "DenseTensorToSparseCsr" -> Len(src.dims) = 2
    [] call.fn = "DenseTensorToSparseCoo" ->
         /\ call.has_transfer
         /\ Len(src.dims) \in {1, 2}
         /\ ~(Len(src.dims) = 1 /\ ~linear_index)
    [] call.fn = "SparseCsrToDenseTensor" ->
         Len(sparse.dims) = 2 /\ sparse.format = "csr"
    [] call.fn = "SparseCooToDenseTensor" ->
         Len(sparse.dims) \in {1, 2} /\ sparse.format = "coo"
    [] OTHER -> FALSE

\* C16 amended: each of the four conversions, given a string input that
\* passes the checks made before the element type is looked at (the rank; the
\* format of a sparse input; in DenseTensorToSparseCoo the transfer lookup
\* and the index mode) and a destination that is not the host, fails with
\* UnsupportedLocationForStrings and hands nothing to the data transfer; an
\* input that fails an earlier check fails with that check's error, and
\* nothing is copied either.
C16_StringsNeedHost ==
  StringsToDevice =>
    /\ copied = <<>>
    /\ Failed(status)
    /\ PassesEarlierChecks => status = UnsupportedLocationForStrings

\* a string tensor converted to COO on the host and asked back on a device
C16_Witness ==
  /\ pc = "dense"
  /\ call.fn = "SparseCooToDenseTensor"
  /\ sparse.type.is_string
  /\ Len(sparse.values) = 2
  /\ src.data = <<"a", "", "b">>
  /\ call.dst_device = GPU
  /\ status = UnsupportedLocationForStrings
  /\ dense = NoTensor

\* --------------------------------------- further converter properties
\* C17: every index converter (GetCoo1DIndicesAndMaybeConvert with
\* ConvertCsrIndicesToCooIndices, GetCsrIndicesAndMaybeConvert,
\* GetCsrIndicesAndTranspose) given an input without stored values returns OK
\* with no index per value and no value mapping, and no size check, assert()
\* included, fails on the way.
C17_FullySparse ==
  (cpc \in {"coo1d", "csr", "transposed"} /\ Nnz(input) = 0) =>
    /\ conv.status = OK
    /\ conv.indices = <<>>
    /\ conv.inner = <<>>
    /\ conv.value_mapping = <<>>
    /\ conv.asserts

\* ------------------------------------------- zero-nnz reconstruction
AllZero(t) ==
  /\ Len(t.data) = ShapeSize(t.dims)
  /\ \A k \in 1..Len(t.data) : t.data[k] = (IF t.type.is_string THEN "" ELSE 0)

\* C18: a sparse tensor without values, of a rank and format the function
\* supports (and, for strings, asked back on the host), is accepted by
\* SparseCsrToDenseTensor and SparseCooToDenseTensor whatever the length of
\* its index sequences: nothing but the copy to a destination device can fail,
\* and the result is the all-zero dense tensor of the declared shape and
\* type.  This includes the CSR tensor DenseTensorToSparseCsr produces for
\* an all-zero input, whose outer sequence is empty.
C18_ZeroNnz ==
  (/\ pc = "dense"
   /\ call.fn \in SparseToDense
   /\ Len(sparse.values) = 0
   /\ PassesEarlierChecks
   /\ ~StringsToDevice) =>
    /\ status \in {OK, CopyFailed}
    /\ status = CopyFailed => (call.dst_device # CPU /\ copied = <<"dst">>)
    /\ status = OK =>
         /\ dense.dims = sparse.dims
         /\ dense.type = sparse.type
         /\ dense.loc = call.dst_device
         /\ AllZero(dense)
         /\ ~outside

\* the all-zero 2x2 tensor through DenseTensorToSparseCsr and back
C18_Witness ==
  /\ pc = "dense"
  /\ call.fn = "SparseCsrToDenseTensor"
  /\ src.dims = <<2, 2>>
  /\ NzOffsets(src) = <<>>
  /\ sparse.values = <<>>
  /\ sparse.outer = <<>>
  /\ status = OK
  /\ dense.data = src.data

\* ------------------------------------------------ transpose properties
\* C19: for a non-vector COO matrix with stored entries (linear or 2-D
\* indices, any order, no duplicate, in range) GetCsrIndicesAndTranspose
\* returns an outer sequence with one range per column; for every output
\* position i in the range of column c, (inner[i], c) is the (row, col) of the
\* input entry at offset value_mapping[i]; within a column the rows ascend;
\* value_mapping is a permutation of 0..nnz-1.
C19_CooTranspose ==
  (/\ cpc = "transposed"
   /\ input.format = "coo"
   /\ NonVector(input)
   /\ Nnz(input) > 0
   /\ ~HasDuplicate(input)) =>
    /\ conv.status = OK
    /\ Len(conv.outer) = input.dims[2] + 1
    /\ conv.outer[1] = 0
    /\ conv.outer[Len(conv.outer)] = Nnz(input)
    /\ \A c \in 1..input.dims[2] : conv.outer[c] <= conv.outer[c + 1]
    /\ Len(conv.inner) = Nnz(input)
    /\ Len(conv.value_mapping) = Nnz(input)
    /\ {conv.value_mapping[i] : i \in 1..Nnz(input)} = 0..(Nnz(input) - 1)
    /\ \A c \in 0..(input.dims[2] - 1) :
         \A i \in conv.outer[c + 1]..(conv.outer[c + 2] - 1) :
           /\ <<conv.inner[i + 1], c>> = CoordAt(input, conv.value_mapping[i + 1])
           /\ (i + 1 < conv.outer[c + 2]) => conv.inner[i + 1] < conv.inner[i + 2]

\* 2x3, linear indices in descending order: entries (1,2) and (0,0)
C19_Witness ==
  /\ cpc = "transposed"
  /\ input.format = "coo"
  /\ input.dims = <<2, 3>>
  /\ input.indices = <<5, 0>>
  /\ conv.inner = <<0, 1>>
  /\ conv.outer = <<0, 1, 1, 2>>
  /\ conv.value_mapping = <<1, 0>>

NonEmptyRows(t) ==
  {r \in 0..(Len(t.outer) - 2) : t.outer[r + 1] < t.outer[r + 2]}

\* the COO matrix holding the entries of a CSR matrix in the same storage
\* order, with linear indices
SameEntriesAsCoo(t) ==
  CooInput(t.dims,
           [k \in 1..Nnz(t) |-> RowOf(t.outer, k - 1) * t.dims[2] + t.inner[k]],
           1, Nnz(t))

\* C20: for a non-vector CSR matrix with two or more non-empty rows
\* GetCsrIndicesAndTranspose returns the inner, outer and value_mapping it
\* returns for the COO matrix holding the same entries in the same storage
\* order: the entry at offset k of row r is regrouped under column inner[k]
\* with secondary value r.
C20_CsrTransposeAsCoo ==
  (/\ cpc = "transposed"
   /\ input.format = "csr"
   /\ NonVector(input)
   /\ Cardinality(NonEmptyRows(input)) >= 2) =>
    LET coo == GetCsrIndicesAndTranspose(input.dims, SameEntriesAsCoo(input))
    IN /\ conv.status = coo.status
       /\ conv.inner = coo.inner
       /\ conv.outer = coo.outer
       /\ conv.value_mapping = coo.value_mapping
       /\ \A c \in 0..(input.dims[2] - 1) :
            \A i \in conv.outer[c + 1]..(conv.outer[c + 2] - 1) :
              <<conv.inner[i + 1], c>> = CoordAt(input, conv.value_mapping[i + 1])

\* ------------------------------------------- converter output structure
InRange(t) ==
  \A p \in 0..(Nnz(t) - 1) :
    /\ CoordAt(t, p)[1] \in 0..(t.dims[1] - 1)
    /\ CoordAt(t, p)[2] \in 0..(t.dims[2] - 1)

CooMatrixWithEntries(t) ==
  t.format = "coo" /\ NonVector(t) /\ Nnz(t) > 0 /\ InRange(t)

\* C21: for a COO matrix with rows > 1, cols > 1, nnz > 0 and in-range
\* coordinates the outer sequence returned by GetCsrIndicesAndMaybeConvert has
\* length rows+1 and the one returned by GetCsrIndicesAndTranspose has length
\* cols+1; each is non-decreasing, starts with 0 and ends with nnz, the inner
\* sequence has length nnz and the asserts on these lengths hold; both calls
\* succeed on every such input, in whatever order its entries are stored.
C21_CsrStructure ==
  /\ (cpc = "csr" /\ CooMatrixWithEntries(input)) =>
        /\ conv.status = OK
        /\ conv.asserts
        /\ OuterWellFormed(conv.outer, input.dims[1], Nnz(input))
        /\ Len(conv.inner) = Nnz(input)
  /\ (cpc = "transposed" /\ CooMatrixWithEntries(input)) =>
        /\ conv.status = OK
        /\ conv.asserts
        /\ OuterWellFormed(conv.outer, input.dims[2], Nnz(input))
        /\ Len(conv.inner) = Nnz(input)

\* the transpose of a 3x3 matrix whose entries sit in column 2, rows given
\* in descending order: columns 0 and 1 are skipped at once
C21_Witness ==
  /\ cpc = "transposed"
  /\ input.format = "coo"
  /\ input.dims = <<3, 3>>
  /\ input.indices = <<8, 2>>
  /\ conv.inner = <<0, 2>>
  /\ conv.outer = <<0, 0, 0, 2>>

\* ------------------------------------------------------ vector exemption
IsVector(t) == Len(t.dims) = 2 /\ (t.dims[1] = 1 \/ t.dims[2] = 1)

\* the COO part of C22: 1-D indices are handed back as they are with the
\* outer sequence [0, nnz], 2-D indices are refused
VectorCooExempt ==
  (cpc \in {"csr", "transposed"} /\ input.format = "coo" /\ IsVector(input)
     /\ Nnz(input) > 0) =>
    IF input.indices_ndims = 1
    THEN /\ conv.status = OK
         /\ conv.inner = input.indices
         /\ conv.outer = <<0, Nnz(input)>>
         /\ conv.value_mapping = <<>>
    ELSE /\ conv.status = InvalidIndexMode
         /\ conv.inner = <<>>
         /\ conv.outer = <<>>

\* C22 as stated: for a vector-shaped COO input with nnz > 0 both
\* GetCsrIndicesAndMaybeConvert and GetCsrIndicesAndTranspose return the 1-D
\* indices unchanged as inner with outer [0, nnz] and fail on 2-D indices; for
\* every vector-shaped CSR input GetCsrIndicesAndTranspose returns the
\* input's inner and outer unchanged.
C22_VectorExemptionAnyCsr ==
  /\ VectorCooExempt
  /\ (cpc = "transposed" /\ input.format = "csr" /\ IsVector(input)) =>
        /\ conv.status = OK
        /\ conv.inner = input.inner
        /\ conv.outer = input.outer

\* C22 amended: the same for COO; for a vector-shaped CSR input with nnz > 0
\* GetCsrIndicesAndTranspose returns the input's inner and outer unchanged,
\* and for one without stored entries it returns empty inner and outer
\* sequences whatever outer the input holds.
C22_VectorExemption ==
  /\ VectorCooExempt
  /\ (cpc = "transposed" /\ input.format = "csr" /\ IsVector(input)) =>
        /\ conv.status = OK
        /\ conv.value_mapping = <<>>
        /\ IF Nnz(input) > 0
           THEN conv.inner = input.inner /\ conv.outer = input.outer
           ELSE conv.inner = <<>> /\ conv.outer = <<>>

\* a column vector with two entries stored in descending order
C22_Witness ==
  /\ cpc = "csr"
  /\ input.format = "coo"
  /\ input.dims = <<3, 1>>
  /\ input.indices_ndims = 1
  /\ input.indices = <<2, 0>>
  /\ conv.inner = <<2, 0>>
  /\ conv.outer = <<0, 2>>

\* ------------------------------------------------------ matcher progress
Min(x, y) == IF x < y THEN x ELSE y

\* C23: for any two sequences A and B, sorted or not, ScanForSparseMatches
\* runs at most |A|+|B| loop iterations (each one advances a position), calls
\* the callback at most min(|A|,|B|) times, never moves a position past the
\* end of its sequence, so every read is inside, and the pairs it passes have
\* strictly increasing A-positions and strictly increasing B-positions.
C23_ScanProgress ==
  /\ a_ind \in 0..Len(a_indices)
  /\ b_ind \in 0..Len(b_indices)
  /\ iterations <= a_ind + b_ind
  /\ iterations <= Len(a_indices) + Len(b_indices)
  /\ Len(matches) <= Min(Len(a_indices), Len(b_indices))
  /\ \A k \in 1..Len(matches) :
        /\ matches[k][1] \in 0..(Len(a_indices) - 1)
        /\ matches[k][2] \in 0..(Len(b_indices) - 1)
  /\ \A k \in 1..(Len(matches) - 1) :
        /\ matches[k][1] < matches[k + 1][1]
        /\ matches[k][2] < matches[k + 1][2]

\* unsorted sequences with two matches, the scan over after three iterations
C23_Witness ==
  /\ spc = "done"
  /\ a_indices = <<2, 0, 1>>
  /\ b_indices = <<2, 1, 1>>
  /\ iterations = 3
  /\ matches = <<<<0, 0>>, <<2, 1>>>>

\* --------------------------------------------------------- staging order
IsPrefix(s, t) == Len(s) <= Len(t) /\ s = SubSeq(t, 1, Len(s))

\* the caller's destination is what it was before any call
DstUntouched ==
  IF call.fn \in DenseToSparse THEN sparse = NoSparse ELSE dense = NoTensor

\* C24 as stated: whenever the source is not host-resident the conversion
\* first copies it to the host, whenever the destination is not
\* host-resident a copy to the destination is the last step, and a failed
\* copy ends the call with no later copy and no change to dst.
C24_StagingAlways ==
  (call.fn \in DenseToSparse \cup SparseToDense) =>
    /\ (status = OK /\ CallInput.loc # CPU) =>
          copied # <<>> /\ copied[1] = "src"
    /\ (status = OK /\ call.dst_device # CPU) =>
          copied # <<>> /\ copied[Len(copied)] \in {"dst", "outer", "indices"}
    /\ status = CopyFailed => copied # <<>> /\ DstUntouched

\* the copies a call makes when none fails, from its arguments alone: the
\* staging copy comes first, the copies to the destination last
CopiesOfDenseToSparse ==
  (IF src.loc # CPU THEN <<"src">> ELSE <<>>)
  \o (IF NzOffsets(src) = <<>> THEN <<>>
      ELSE (IF src.type.is_string THEN <<>> ELSE <<"values">>)
           \o (IF call.fn = "DenseTensorToSparseCsr" THEN <<"inner", "outer">>
               ELSE <<"indices">>))
CopiesOfSparseToDense ==
  (IF Len(sparse.values) > 0 /\ sparse.loc # CPU THEN <<"src">> ELSE <<>>)
  \o (IF call.dst_device # CPU THEN <<"dst">> ELSE <<>>)
AllCopies ==
  IF call.fn \in DenseToSparse THEN CopiesOfDenseToSparse ELSE CopiesOfSparseToDense

\* C24 amended: a dense source that is not host-resident is always copied to
\* the host first, a sparse one when it holds at least one value (without
\* values nothing is staged); the scan follows that copy; the copies to the
\* destination come last: the dense result when the destination is not
\* host-resident, and for a dense -> sparse call with nnz > 0 the values
\* (numeric types), then inner and outer or the indices, through the data
\* transfer whatever the destination (with nnz = 0 nothing is copied to it).
\* A successful call made exactly these copies in this order; any other call
\* made a prefix of them; a call that ends with CopyFailed made at least one
\* and left dst unchanged.
C24_StagingOrder ==
  (call.fn \in DenseToSparse \cup SparseToDense) =>
    /\ IsPrefix(copied, AllCopies)
    /\ status = OK => copied = AllCopies
    /\ status = CopyFailed => copied # <<>> /\ DstUntouched

\* a device tensor converted to CSR on the device
C24_Witness ==
  /\ pc = "sparse"
  /\ call.fn = "DenseTensorToSparseCsr"
  /\ call.dst_device = GPU
  /\ src.loc = GPU
  /\ status = OK
  /\ copied = <<"src", "values", "inner", "outer">>

\* ------------------------------------------------- scatter stays in bounds
\* C25: for a CSR tensor with values whose inner count is the value count and
\* whose outer count is rows+1, SparseCsrToDenseTensor reads no inner position
\* outside [0, nnz) and writes no destination offset outside [0, rows*cols):
\* an input whose column indices or outer pointers would lead outside is
\* turned down with a Status before anything is read or written there.
C25_CsrInBounds ==
  (ReachedScatter /\ call.fn = "SparseCsrToDenseTensor") =>
    /\ ~outside
    /\ status # Fault

PairIndices(t) ==
  t.format = "coo" /\ Len(t.dims) = 2 /\ Len(t.indices) = 2 * Len(t.values)

PairInShape(t, i) ==
  /\ t.indices[2 * i - 1] \in 0..(t.dims[1] - 1)
  /\ t.indices[2 * i] \in 0..(t.dims[2] - 1)

\* C26: in SparseCooToDenseTensor with 2-D indices on a 2-D shape a pair
\* (r, c) with r outside [0, rows) or c outside [0, cols) makes the
\* conversion fail with IndexOutOfRange; nothing is written outside the
\* buffer, and after a successful call every value sits in the cell its pair
\* names unless a later value has the same pair.
C26_PairPlacement ==
  (ReachedScatter /\ call.fn = "SparseCooToDenseTensor" /\ PairIndices(sparse)) =>
    /\ (\E i \in 1..Len(sparse.values) : ~PairInShape(sparse, i))
         => status = IndexOutOfRange
    /\ ~outside
    /\ status = OK =>
         \A i \in 1..Len(sparse.values) :
           \E j \in i..Len(sparse.values) :
             /\ sparse.indices[2 * j - 1] = sparse.indices[2 * i - 1]
             /\ sparse.indices[2 * j] = sparse.indices[2 * i]
             /\ dense.data[sparse.indices[2 * i - 1] * sparse.dims[2]
                           + sparse.indices[2 * i] + 1] = sparse.values[j]

\* -------------------------------------------- assert in the vector path
\* C27: for every vector-shaped CSR input, whatever its number of stored
\* entries, the assert GetCoo1DIndicesAndMaybeConvert makes on the inner
\* count (equal to rows or equal to cols) holds.
C27_VectorAssert ==
  (cpc = "coo1d" /\ input.format = "csr" /\ IsVector(input)) => conv.asserts

\* ---------------------------------------------- CudaNotification ordering
EventRecorded(k) ==
  \E j \in 1..k : cuda_calls[j].api = "cudaEventRecordWithFlags" /\ cuda_calls[j].ok

LeftLoop(w) == wpc[w] \in {"wait", "done", "thrown"}

\* C28: under every interleaving of the notifying thread and the waiting
\* threads, cudaStreamWaitEvent (wait_on_device) and cudaEventSynchronize
\* (wait_on_host) are issued only after notify has recorded the event: the
\* flag is set only after a successful record, a waiter is past its loop
\* only when the flag is set, and every wait call in the order of calls has
\* the successful record before it.
C28_RecordBeforeWait ==
  /\ ready_ => EventRecorded(Len(cuda_calls))
  /\ \A w \in Waiters : LeftLoop(w) => ready_
  /\ \A i \in 1..Len(cuda_calls) :
        cuda_calls[i].api \in {"cudaStreamWaitEvent", "cudaEventSynchronize"}
          => EventRecorded(i - 1)

\* a device-side and a host-side waiter, the first of which was spinning
\* before notify ran, have both issued their wait
C28_Witness ==
  /\ wfn[1] = "WaitCudaNotificationOnDevice"
  /\ wfn[2] = "WaitCudaNotificationOnHost"
  /\ spun[1]
  /\ wpc[1] = "done"
  /\ wpc[2] = "done"
  /\ cuda_calls = <<CudaCall("cudaEventRecordWithFlags", 0, TRUE),
                    CudaCall("cudaEventSynchronize", 2, TRUE),
                    CudaCall("cudaStreamWaitEvent", 1, TRUE)>>

\* ---------------------------------------------- CudaNotification liveness
InLoop(w) == wpc[w] \in {"load", "pause"}

\* notify was called and its event record succeeded
RecordSucceeded == npc \in {"store", "done"}

\* C29: once notify has been called and its event record has succeeded,
\* every thread that is in the loop of wait_on_device or wait_on_host leaves
\* the loop and returns from the wait function (with the result of its CUDA
\* call), provided every thread inside a function keeps being scheduled; and
\* a waiter is past its loop only when notify has completed.
C29_WaitersLeave ==
  /\ \A w \in Waiters :
        (RecordSucceeded /\ InLoop(w)) ~> (wpc[w] \in {"done", "thrown"})
  /\ [](\A w \in Waiters : LeftLoop(w) => npc = "done")

\* a waiter that went round its loop before notify completed has returned
C29_Witness ==
  /\ npc = "done"
  /\ spun[2]
  /\ wfn[2] = "WaitCudaNotificationOnHost"
  /\ wpc[2] = "done"
  /\ wpc[1] = "idle"

\* ------------------------------------------------------ wait registration
\* the provider name RegisterCudaStreamHandles does not use
kCpuExecutionProvider == "CPUExecutionProvider"

\* the wait functions the registry holds for a (notifier, waiter) pair
WaitFnsFor(notifier, waiter) ==
  {e[3] : e \in {x \in registry.wait : x[1] = notifier /\ x[2] = waiter}}

\* C30: after RegisterCudaStreamHandles the registry holds
\* WaitCudaNotificationOnDevice for a CUDA notification awaited by the CUDA
\* provider and WaitCudaNotificationOnHost for a CUDA notification awaited by
\* the CPU provider: two keys, neither registration replacing the other.
C30_BothWaitsRegistered ==
  registry # EmptyRegistry =>
    /\ WaitFnsFor(kCudaExecutionProvider, kCudaExecutionProvider)
         = {"WaitCudaNotificationOnDevice"}
    /\ WaitFnsFor(kCudaExecutionProvider, kCpuExecutionProvider)
         = {"WaitCudaNotificationOnHost"}

====
